---- MODULE Spec2Model ----
(***************************************************************************)
(* Device side of the sniffy firmware (main/sniffer.c, protocol.h) and the *)
(* host drop accounting of the TypeScript client.                          *)
(*                                                                         *)
(*  - command dispatcher: handle_command, run by proto_rx_task             *)
(*  - scan state machine: scan_task, driven by FreeRTOS task notifications *)
(*  - capture pipeline: proto_send_frame (producer), proto_tx_task         *)
(*    (consumer), the buffer pool free list and the transmit queue         *)
(*  - host: SnifferClient._process, _handleFrame sequence-gap accounting   *)
(*    and _sendCmd with its single pending-response slot                   *)
(*                                                                         *)
(* The initial state is the state after app_main has returned: the pool   *)
(* is filled, the TX, RX and scan tasks exist (scan_task_handle is set).   *)
(***************************************************************************)
EXTENDS Integers, Sequences, FiniteSets

(* ------------------------------------------------------------------ *)
(* protocol.h                                                           *)
(* ------------------------------------------------------------------ *)
MSG_CMD_SCAN_START == 1
MSG_CMD_SCAN_STOP == 2
MSG_CMD_PROMISC_ON == 3
MSG_CMD_PROMISC_OFF == 4
MSG_CMD_PROMISC_QUERY == 5
MSG_RSP_ACK == 129
MSG_RSP_ERROR == 130
MSG_RSP_PROMISC_STATUS == 131
MSG_EVT_FRAME == 192

FLAG_ERR == 1
FLAG_ACK == 2

ERR_UNKNOWN_CMD == 1
ERR_INVALID_CHANNEL == 2
ERR_WIFI_FAIL == 3
ERR_SCAN_ACTIVE == 4
\* used by handle_command (sniffer.c:292); its #define is not part of the
\* sources at hand, the value is the one of the wire catalogue
ERR_INVALID_FILTER == 5

MAX_FRAME_LEN == 2300
\* tx_buffer_size of the USB serial driver (proto_init)
LinkCap == 4096
BUF_POOL_SIZE == 8
HDR_SIZE == 4
META_SIZE == 16
BUF_SLOT_SIZE == HDR_SIZE + META_SIZE + MAX_FRAME_LEN

\* uint16_t arithmetic (frame_seq, seq_num, payload_len)
U16 == 65536
\* uint8_t arithmetic
U8 == 256

(* ------------------------------------------------------------------ *)
(* Bounds of the model                                                  *)
(* ------------------------------------------------------------------ *)
\* capture callbacks the radio makes in one run of the pipeline
MaxFrames == 10
\* frame events in flight between the TX task's write and the host
MaxWire == 2
\* inbound messages the RX task dispatches in one run
MaxCmds == 3
\* decoded messages the host's read loop processes in one run
MaxHostMsgs == 4
\* commands the host issues in one run
MaxHostCmds == 3

(* ------------------------------------------------------------------ *)
(* State                                                                *)
(* ------------------------------------------------------------------ *)
VARIABLES
    \* shared state, sniffer.c:10-13 and scan_filter
    scanning, promisc_on, scan_channel, scan_filter,
    \* radio driver state set through esp_wifi_set_promiscuous(_filter)
    wifi_promisc, wifi_filter,
    \* the last message handed to send_raw by the RX task (<<>>: none yet)
    last_rsp,
    \* history: handle_command has run while the scan task was ready to
    \* run
    g_preempted,
    \* host keeps sending commands while FALSE
    host_quiet,
    \* scan task's notification slot: ulNotifiedValue and ucNotifyState
    notify_value, notify_state,
    \* scan_task: position, ch_idx, and the channel last given to
    \* esp_wifi_set_channel (0: never tuned)
    scan_pc, ch_idx, radio_channel,
    \* buffer pool free list, transmit queue, slot contents, frame_seq
    pool_queue, tx_queue, buf_pool, frame_seq,
    \* proto_send_frame: position, the slot it holds (0: NULL), sig_len
    prod_pc, prod_buf, prod_sig_len,
    \* proto_tx_task: position and the item it holds
    tx_pc, tx_item,
    \* frame events written to the USB link and not yet read by the host
    wire,
    \* SnifferClient: frameCount, dropped, _seqExpect, _firstSeq
    frameCount, dropped, seqExpect, firstSeq,
    \* history: number of capture callbacks that asked the pool for a slot,
    \* the ones among them lost to an empty pool, and the capture numbers
    \* of the first and the last frame the host accepted (0: none)
    g_captured, g_pool_lost, g_host_first, g_host_last,
    \* history: seq_num of every frame given to the frame callback, and
    \* the number of decoded messages _process has looked at
    g_delivered, g_host_in,
    \* proto_rx_task: position ("read": in the read loop, "send": inside
    \* send_raw), the message send_raw was given, the responses written
    \* to the USB link, and (history) the msg_type of every complete
    \* message dispatched
    rx_pc, rx_rsp, usb_out, g_cmds,
    \* SnifferClient._respResolve: the command whose promise the slot
    \* resolves (0: null); commands issued so far; per command its
    \* position in _sendCmd and (history) the command whose response
    \* resolved it (0: none)
    respResolve, next_cmd, cmd_state, g_resolved_by,
    \* command packets written by the host and not yet dispatched by the
    \* device, responses written by the device and not yet read
    to_dev, to_host,
    \* history: a command was issued while another awaited its response
    \* or while disconnect() was running
    g_overlap,
    \* SnifferClient._running; the serial port ("open", "lost": the device
    \* is gone and port.readable is null, "closed": _port is null); the
    \* read loop ("read": awaiting reader.read(), "exited": _readLoop has
    \* returned); disconnect() ("idle": not called, "cancel": awaiting
    \* reader.cancel(), "done": returned); history: calls of _onDisconnect
    running, port, reader_pc, disc_pc, g_onDisconnect,
    \* COBS codec at work: position ("idle", "wire": a span is on the wire,
    \* "done": it has been decoded), the message encoded, the span, the
    \* decoder's result, and (history) which encoder and decoder ran
    cobs_pc, cobs_src, cobs_wire, cobs_res, g_codec,
    \* SnifferClient._buf: bytes read and not yet split into spans
    buf,
    \* bytes the device has written to the link and the client has not
    \* read yet; history: the well-formed messages written to the link and
    \* the decoded messages _process has dispatched by msg_type
    stream, g_sent, g_dispatched,
    \* the USB driver's transmit ring buffer seen write by write: the
    \* pieces accepted so far in order ("0": a delimiter, "F": a frame body,
    \* "R": a response body), its free space, and the next write of the
    \* TX task and of send_raw ("idle", "d1", "body", "d2")
    lk_out, lk_free, lk_tx, lk_rx,
    \* proto_rx_task's accumulator accum[0..accum_len), the number of
    \* non-delimiter bytes received since the last delimiter, and that
    \* number for the last span a delimiter has closed; the reads made
    \* since the last delimiter; the last decoded message handed to
    \* handle_command by the read loop
    accum, g_span, g_last_span, g_reads, g_in,
    \* the host's Frame object: its raw bytes, the elements iterIes has
    \* yielded for it and the value of its ssid property
    fr_raw, fr_ies, fr_ssid

cmdVars == <<scanning, promisc_on, scan_channel, scan_filter,
             wifi_promisc, wifi_filter, last_rsp, g_preempted>>
notifyVars == <<notify_value, notify_state>>
scanVars == <<scan_pc, ch_idx, radio_channel>>
pipeVars == <<pool_queue, tx_queue, buf_pool, frame_seq,
              prod_pc, prod_buf, prod_sig_len, tx_pc, tx_item, wire,
              g_captured, g_pool_lost>>
hostVars == <<frameCount, dropped, seqExpect, firstSeq,
              g_host_first, g_host_last, g_delivered, g_host_in>>
rxVars == <<rx_pc, rx_rsp, usb_out, g_cmds>>
connVars == <<running, port, reader_pc, disc_pc, g_onDisconnect>>
byteVars == <<cobs_pc, cobs_src, cobs_wire, cobs_res, g_codec, buf,
              stream, g_sent, g_dispatched>>
linkVars == <<lk_out, lk_free, lk_tx, lk_rx>>
accVars == <<accum, g_span, g_last_span, g_reads, g_in>>
frameVars == <<fr_raw, fr_ies, fr_ssid>>
clientVars == <<respResolve, next_cmd, cmd_state, g_resolved_by,
                to_dev, to_host, g_overlap, connVars, byteVars, linkVars,
                accVars, frameVars>>
vars == <<cmdVars, host_quiet, notifyVars, scanVars, pipeVars, hostVars,
          rxVars, clientVars>>

(* ------------------------------------------------------------------ *)
(* Channel tables                                                       *)
(* ------------------------------------------------------------------ *)
channels == <<1, 2, 3, 4, 5, 6, 7, 8, 9, 10, 11, 12, 13,
              36, 40, 44, 48, 149, 153, 157, 161, 165>>
num_channels == Len(channels)

valid_channels == <<1, 2, 3, 4, 5, 6, 7, 8, 9, 10, 11, 12, 13,
                    36, 40, 44, 48, 149, 153, 157, 161, 165>>
num_valid_channels == Len(valid_channels)

\* a range test in place of the table lookup
is_valid_channel_AnyUpTo165(ch) == (ch % U8) \in 1..165

is_valid_channel(ch) ==
    \E i \in 1..num_valid_channels : valid_channels[i] = ch % U8

(* ------------------------------------------------------------------ *)
(* Responses: header (msg_type, flags, payload_len little-endian) and   *)
(* payload, as handed to send_raw                                       *)
(* ------------------------------------------------------------------ *)
MsgHdr(msg_type, flags, payload_len) ==
    <<msg_type, flags, payload_len % U8, (payload_len \div U8) % U8>>

proto_send_ack(cmd_type) ==
    MsgHdr(MSG_RSP_ACK, FLAG_ACK, 1) \o <<cmd_type>>

proto_send_error(cmd_type, error_code) ==
    MsgHdr(MSG_RSP_ERROR, FLAG_ERR, 2) \o <<cmd_type, error_code>>

proto_send_promisc_status(enabled) ==
    MsgHdr(MSG_RSP_PROMISC_STATUS, FLAG_ACK, 1) \o <<IF enabled THEN 1 ELSE 0>>

(* ------------------------------------------------------------------ *)
(* handle_command                                                       *)
(* ------------------------------------------------------------------ *)
\* WIFI_PROMIS_FILTER_MASK_MGMT | _CTRL | _DATA
FilterMaskAll == 2^23 + 2^22 + 2^24

\* filt_byte & ~0x07
FilterReservedBits(filt_byte) == filt_byte - (filt_byte % 8)

\* the shared state handle_command reads and writes
Shared ==
    [scanning |-> scanning, promisc_on |-> promisc_on,
     scan_channel |-> scan_channel, scan_filter |-> scan_filter,
     wifi_promisc |-> wifi_promisc, wifi_filter |-> wifi_filter]

NoNotify == -1

\* app_main has created the scan task: the handle is not NULL
scan_task_handle == TRUE

\* outcome of a call: the shared state after it, the value given to
\* xTaskNotify (NoNotify: not called) and the response sent (<<>>: none)
Outcome(s, notify, rsp) == [state |-> s, notify |-> notify, rsp |-> rsp]

\* Scan Start refused while a scan is active
CmdScanStart_RejectWhenScanning(s, msg_type, plen, payload) ==
    IF plen < 2
    THEN Outcome(s, NoNotify, proto_send_error(msg_type, ERR_INVALID_CHANNEL))
    ELSE IF s.scanning
    THEN Outcome(s, NoNotify, proto_send_error(msg_type, ERR_SCAN_ACTIVE))
    ELSE
    LET ch == payload[1]
        filt_byte == payload[2]
    IN  IF ch # 0 /\ ~is_valid_channel(ch)
        THEN Outcome(s, NoNotify,
                     proto_send_error(msg_type, ERR_INVALID_CHANNEL))
        ELSE IF FilterReservedBits(filt_byte) # 0
        THEN Outcome(s, NoNotify,
                     proto_send_error(msg_type, ERR_INVALID_FILTER))
        ELSE Outcome([s EXCEPT
                        !.scan_channel = IF ch = 0 THEN -1 ELSE ch,
                        !.scan_filter = filt_byte,
                        !.scanning = TRUE,
                        !.wifi_filter = IF filt_byte # 0 THEN filt_byte
                                        ELSE FilterMaskAll,
                        !.wifi_promisc = TRUE,
                        !.promisc_on = TRUE],
                     IF scan_task_handle THEN 1 ELSE NoNotify,
                     proto_send_ack(msg_type))

\* Scan Start that takes a one-byte payload as a channel with no filter
CmdScanStart_OneByteStarts(s, msg_type, plen, payload) ==
    IF plen < 1
    THEN Outcome(s, NoNotify, proto_send_error(msg_type, ERR_INVALID_CHANNEL))
    ELSE
    LET ch == payload[1]
        filt_byte == IF plen < 2 THEN 0 ELSE payload[2]
    IN  IF ch # 0 /\ ~is_valid_channel(ch)
        THEN Outcome(s, NoNotify,
                     proto_send_error(msg_type, ERR_INVALID_CHANNEL))
        ELSE IF FilterReservedBits(filt_byte) # 0
        THEN Outcome(s, NoNotify,
                     proto_send_error(msg_type, ERR_INVALID_FILTER))
        ELSE Outcome([s EXCEPT
                        !.scan_channel = IF ch = 0 THEN -1 ELSE ch,
                        !.scan_filter = filt_byte,
                        !.scanning = TRUE,
                        !.wifi_filter = IF filt_byte # 0 THEN filt_byte
                                        ELSE FilterMaskAll,
                        !.wifi_promisc = IF s.promisc_on THEN @ ELSE TRUE,
                        !.promisc_on = TRUE],
                     IF scan_task_handle THEN 1 ELSE NoNotify,
                     proto_send_ack(msg_type))

CmdScanStart(s, msg_type, plen, payload) ==
    IF plen < 2
    THEN Outcome(s, NoNotify, proto_send_error(msg_type, ERR_INVALID_CHANNEL))
    ELSE
    LET ch == payload[1]
        filt_byte == payload[2]
    IN  IF ch # 0 /\ ~is_valid_channel(ch)
        THEN Outcome(s, NoNotify,
                     proto_send_error(msg_type, ERR_INVALID_CHANNEL))
        ELSE IF FilterReservedBits(filt_byte) # 0
        THEN Outcome(s, NoNotify,
                     proto_send_error(msg_type, ERR_INVALID_FILTER))
        ELSE Outcome([s EXCEPT
                        !.scan_channel = IF ch = 0 THEN -1 ELSE ch,
                        !.scan_filter = filt_byte,
                        !.scanning = TRUE,
                        !.wifi_filter = IF filt_byte # 0 THEN filt_byte
                                        ELSE FilterMaskAll,
                        !.wifi_promisc = IF s.promisc_on THEN @ ELSE TRUE,
                        !.promisc_on = TRUE],
                     IF scan_task_handle THEN 1 ELSE NoNotify,
                     proto_send_ack(msg_type))

\* Scan Stop that also leaves promiscuous mode
CmdScanStop_ClearsPromisc(s, msg_type) ==
    Outcome([s EXCEPT !.scanning = FALSE, !.wifi_promisc = FALSE,
                      !.promisc_on = FALSE],
            IF scan_task_handle THEN 0 ELSE NoNotify,
            proto_send_ack(msg_type))

CmdScanStop(s, msg_type) ==
    Outcome([s EXCEPT !.scanning = FALSE],
            IF scan_task_handle THEN 0 ELSE NoNotify,
            proto_send_ack(msg_type))

\* Promiscuous On that switches capture off when it is already on
CmdPromiscOn_Toggles(s, msg_type) ==
    Outcome([s EXCEPT
               !.wifi_filter = IF s.scan_filter # 0 THEN s.scan_filter
                               ELSE FilterMaskAll,
               !.wifi_promisc = ~s.promisc_on,
               !.promisc_on = ~s.promisc_on],
            NoNotify, proto_send_ack(msg_type))

\* lines 324-335
CmdPromiscOn(s, msg_type) ==
    Outcome([s EXCEPT
               !.wifi_filter = IF s.scan_filter # 0 THEN s.scan_filter
                               ELSE FilterMaskAll,
               !.wifi_promisc = TRUE,
               !.promisc_on = TRUE],
            NoNotify, proto_send_ack(msg_type))

\* Promiscuous Off without the test of scanning
CmdPromiscOff_NoScanCheck(s, msg_type) ==
    Outcome([s EXCEPT !.wifi_promisc = FALSE, !.promisc_on = FALSE],
            NoNotify, proto_send_ack(msg_type))

\* Promiscuous Off that reports ScanActive and disables capture all the same
CmdPromiscOff_ErrorButDisables(s, msg_type) ==
    IF s.scanning
    THEN Outcome([s EXCEPT !.wifi_promisc = FALSE, !.promisc_on = FALSE],
                 NoNotify, proto_send_error(msg_type, ERR_SCAN_ACTIVE))
    ELSE Outcome([s EXCEPT !.wifi_promisc = FALSE, !.promisc_on = FALSE],
                 NoNotify, proto_send_ack(msg_type))

CmdPromiscOff(s, msg_type) ==
    IF s.scanning
    THEN Outcome(s, NoNotify, proto_send_error(msg_type, ERR_SCAN_ACTIVE))
    ELSE Outcome([s EXCEPT !.wifi_promisc = FALSE, !.promisc_on = FALSE],
                 NoNotify, proto_send_ack(msg_type))

CmdPromiscQuery(s, msg_type) ==
    Outcome(s, NoNotify, proto_send_promisc_status(s.promisc_on))

\* an unrecognised msg_type is dropped without a response
CmdUnknown_Silent(s, msg_type) == Outcome(s, NoNotify, <<>>)

\* lines 351-353
CmdUnknown(s, msg_type) ==
    Outcome(s, NoNotify, proto_send_error(msg_type, ERR_UNKNOWN_CMD))

\* data: the decoded bytes of one inbound message
handle_command(s, data) ==
    IF Len(data) < HDR_SIZE THEN Outcome(s, NoNotify, <<>>)
    ELSE
    LET msg_type == data[1]
        plen == data[3] + U8 * data[4]
        payload == SubSeq(data, HDR_SIZE + 1, Len(data))
    IN  IF plen > Len(data) - HDR_SIZE THEN Outcome(s, NoNotify, <<>>)
        ELSE CASE msg_type = MSG_CMD_SCAN_START ->
                    CmdScanStart(s, msg_type, plen, payload)
               [] msg_type = MSG_CMD_SCAN_STOP -> CmdScanStop(s, msg_type)
               [] msg_type = MSG_CMD_PROMISC_ON -> CmdPromiscOn(s, msg_type)
               [] msg_type = MSG_CMD_PROMISC_OFF -> CmdPromiscOff(s, msg_type)
               [] msg_type = MSG_CMD_PROMISC_QUERY ->
                    CmdPromiscQuery(s, msg_type)
               [] OTHER -> CmdUnknown(s, msg_type)

(* ------------------------------------------------------------------ *)
(* Inbound messages the host may send (decoded form)                    *)
(* ------------------------------------------------------------------ *)
\* msg_type bytes: the five commands, a response value, an event value
\* and an unassigned value
MsgTypes == {MSG_CMD_SCAN_START, MSG_CMD_SCAN_STOP, MSG_CMD_PROMISC_ON,
             MSG_CMD_PROMISC_OFF, MSG_CMD_PROMISC_QUERY,
             MSG_RSP_ACK, MSG_EVT_FRAME, 6}

\* payload bytes: 0 (all channels / all types), the valid channels 6 and
\* 36, the invalid channel 14; 6 is a valid filter, 14 and 36 have
\* reserved filter bits set
PayloadBytes == {0, 6, 14, 36}

Payloads ==
    {<<>>} \cup {<<a>> : a \in PayloadBytes}
           \cup {<<a, b>> : a \in PayloadBytes, b \in PayloadBytes}

\* complete messages (the header declares the payload that follows):
\* Scan Start with every payload, the other types with none and with one
WellFormedMsgs ==
    {MsgHdr(MSG_CMD_SCAN_START, 0, Len(p)) \o p : p \in Payloads}
    \cup {MsgHdr(t, 0, Len(p)) \o p : t \in MsgTypes, p \in {<<>>, <<6>>}}

\* messages shorter than a header, and headers declaring more payload
\* than follows
MalformedMsgs ==
    {<<MSG_CMD_SCAN_START>>, <<MSG_CMD_SCAN_STOP, 0, 0>>,
     MsgHdr(MSG_CMD_SCAN_START, 0, 2) \o <<6>>,
     MsgHdr(MSG_CMD_SCAN_STOP, 0, 1),
     MsgHdr(MSG_CMD_PROMISC_OFF, 0, 3) \o <<0, 0>>}

InboundMsgs == WellFormedMsgs \cup MalformedMsgs

\* SnifferClient.scan(channel): _sendCmd(MSG_CMD_SCAN_START, [channel])
ClientScanMsg(channel) ==
    MsgHdr(MSG_CMD_SCAN_START, 0, 1) \o <<channel % U8>>

PromiscOffMsg == MsgHdr(MSG_CMD_PROMISC_OFF, 0, 0)

ScanStartMsg(ch, filt) == MsgHdr(MSG_CMD_SCAN_START, 0, 2) \o <<ch, filt>>
ScanStopMsg == MsgHdr(MSG_CMD_SCAN_STOP, 0, 0)

(* ------------------------------------------------------------------ *)
(* proto_rx_task: one decoded message dispatched to handle_command      *)
(* ------------------------------------------------------------------ *)
\* The scan task (priority 5, line 96) is blocked in a take; otherwise it
\* is ready and, on the single core of the ESP32-C6, the RX task
\* (priority 4, line 415) does not run.
ScanTaskBlocked ==
    scan_pc \in {"L39w", "L48w", "L67w"} /\ notify_state = "waiting"

RunsBesideScanTask == g_preempted' = (g_preempted \/ ~ScanTaskBlocked)

\* xTaskNotify(scan_task_handle, value, eSetValueWithOverwrite)
xTaskNotify(value) ==
    /\ notify_value' = value
    /\ notify_state' = "received"

RxDispatch(Msgs) ==
    /\ ~host_quiet
    /\ \E data \in Msgs :
         LET o == handle_command(Shared, data)
         IN  /\ scanning' = o.state.scanning
             /\ promisc_on' = o.state.promisc_on
             /\ scan_channel' = o.state.scan_channel
             /\ scan_filter' = o.state.scan_filter
             /\ wifi_promisc' = o.state.wifi_promisc
             /\ wifi_filter' = o.state.wifi_filter
             /\ RunsBesideScanTask
             /\ last_rsp' = IF o.rsp = <<>> THEN last_rsp ELSE o.rsp
             /\ IF o.notify = NoNotify
                THEN UNCHANGED notifyVars
                ELSE xTaskNotify(o.notify)
    /\ UNCHANGED <<host_quiet, scanVars, pipeVars, hostVars, rxVars,
                   clientVars>>

\* the host stops sending commands
HostQuiet ==
    /\ ~host_quiet
    /\ host_quiet' = TRUE
    /\ UNCHANGED <<cmdVars, notifyVars, scanVars, pipeVars, hostVars,
                   rxVars, clientVars>>

(* ------------------------------------------------------------------ *)
(* proto_rx_task as a sequential task: handle_command changes the       *)
(* shared state and hands its response to send_raw; the read loop goes  *)
(* on to the next inbound message after send_raw has returned.          *)
(* ------------------------------------------------------------------ *)
\* handle_command takes the message as a command: a whole header, and at
\* least the payload the header declares (lines 269 and 276)
IsComplete(data) ==
    /\ Len(data) >= HDR_SIZE
    /\ data[3] + U8 * data[4] <= Len(data) - HDR_SIZE

\* the next message is dispatched while send_raw still holds the
\* response to the previous one
RxHandle_WhileSending(Msgs) ==
    /\ Len(g_cmds) < MaxCmds
    /\ \E data \in Msgs :
         LET o == handle_command(Shared, data)
         IN  /\ scanning' = o.state.scanning
             /\ promisc_on' = o.state.promisc_on
             /\ scan_channel' = o.state.scan_channel
             /\ scan_filter' = o.state.scan_filter
             /\ wifi_promisc' = o.state.wifi_promisc
             /\ wifi_filter' = o.state.wifi_filter
             /\ RunsBesideScanTask
             /\ IF o.notify = NoNotify
                THEN UNCHANGED notifyVars
                ELSE xTaskNotify(o.notify)
             /\ IF o.rsp = <<>>
                THEN UNCHANGED <<rx_pc, rx_rsp>>
                ELSE rx_pc' = "send" /\ rx_rsp' = o.rsp
             /\ g_cmds' = IF IsComplete(data) THEN Append(g_cmds, data[1])
                          ELSE g_cmds
    /\ UNCHANGED <<last_rsp, usb_out, host_quiet, scanVars, pipeVars,
                   hostVars, clientVars>>

\* lines 374-377 and handle_command up to its call of proto_send_*
RxHandle(Msgs) ==
    /\ rx_pc = "read"
    /\ Len(g_cmds) < MaxCmds
    /\ \E data \in Msgs :
         LET o == handle_command(Shared, data)
         IN  /\ scanning' = o.state.scanning
             /\ promisc_on' = o.state.promisc_on
             /\ scan_channel' = o.state.scan_channel
             /\ scan_filter' = o.state.scan_filter
             /\ wifi_promisc' = o.state.wifi_promisc
             /\ wifi_filter' = o.state.wifi_filter
             /\ RunsBesideScanTask
             /\ IF o.notify = NoNotify
                THEN UNCHANGED notifyVars
                ELSE xTaskNotify(o.notify)
             /\ IF o.rsp = <<>>
                THEN UNCHANGED <<rx_pc, rx_rsp>>
                ELSE rx_pc' = "send" /\ rx_rsp' = o.rsp
             /\ g_cmds' = IF IsComplete(data) THEN Append(g_cmds, data[1])
                          ELSE g_cmds
    /\ UNCHANGED <<last_rsp, usb_out, host_quiet, scanVars, pipeVars,
                   hostVars, clientVars>>

\* send_raw, lines 145-154: the response goes out on the USB link and
\* control returns to the read loop
RxSendRaw ==
    /\ rx_pc = "send"
    /\ usb_out' = Append(usb_out, rx_rsp)
    /\ last_rsp' = rx_rsp
    /\ rx_rsp' = <<>>
    /\ rx_pc' = "read"
    /\ UNCHANGED <<scanning, promisc_on, scan_channel, scan_filter,
                   wifi_promisc, wifi_filter, g_preempted, g_cmds>>
    /\ UNCHANGED <<host_quiet, notifyVars, scanVars, pipeVars, hostVars,
                   clientVars>>

(* ------------------------------------------------------------------ *)
(* scan_task.  Positions are source lines of sniffer.c; "w" marks the   *)
(* task blocked inside ulTaskNotifyTake.                                *)
(*                                                                      *)
(* ulTaskNotifyTake(pdTRUE, t) blocks only if the notification value is *)
(* zero, is woken by a notification (of any value) or by its timeout,   *)
(* returns the value and clears it.                                     *)
(* ------------------------------------------------------------------ *)
ScanUnchanged ==
    UNCHANGED <<cmdVars, host_quiet, pipeVars, hostVars, rxVars, clientVars>>

\* the take finds a non-zero value and returns it at once
TakeReturns(at, next) ==
    /\ scan_pc = at
    /\ notify_value # 0
    /\ notify_value' = 0
    /\ notify_state' = "not_waiting"
    /\ scan_pc' = next

\* the take finds the value zero and blocks
TakeBlocks(at, blocked) ==
    /\ scan_pc = at
    /\ notify_value = 0
    /\ notify_state' = "waiting"
    /\ scan_pc' = blocked
    /\ UNCHANGED notify_value

\* a notification wakes the blocked task; the take returns its value
TakeWoken(blocked, nextNonZero, nextZero) ==
    /\ scan_pc = blocked
    /\ notify_state = "received"
    /\ notify_value' = 0
    /\ notify_state' = "not_waiting"
    /\ scan_pc' = IF notify_value # 0 THEN nextNonZero ELSE nextZero

\* the take's timeout ends the wait; it returns 0
TakeTimesOut(blocked, nextZero) ==
    /\ scan_pc = blocked
    /\ notify_state = "waiting"
    /\ notify_state' = "not_waiting"
    /\ scan_pc' = nextZero
    /\ UNCHANGED notify_value

\* line 39: ulTaskNotifyTake(pdTRUE, portMAX_DELAY), result unused
ScanIdleTake ==
    /\ TakeReturns("L39", "L41")
    /\ UNCHANGED <<ch_idx, radio_channel>> /\ ScanUnchanged

ScanIdleBlock ==
    /\ TakeBlocks("L39", "L39w")
    /\ UNCHANGED <<ch_idx, radio_channel>> /\ ScanUnchanged

ScanIdleWoken ==
    /\ TakeWoken("L39w", "L41", "L41")
    /\ UNCHANGED <<ch_idx, radio_channel>> /\ ScanUnchanged

\* line 41 left out: the index keeps its value across restarts
ScanChooseMode_KeepsIndex ==
    /\ scan_pc = "L41"
    /\ scan_pc' = IF scan_channel > 0 THEN "L45" ELSE "L62"
    /\ UNCHANGED <<ch_idx, radio_channel, notifyVars>> /\ ScanUnchanged

\* the test of line 43 left out: the task always takes the single-channel
\* branch
ScanChooseMode_SkipsTest ==
    /\ scan_pc = "L41"
    /\ ch_idx' = 0
    /\ scan_pc' = "L45"
    /\ UNCHANGED <<radio_channel, notifyVars>> /\ ScanUnchanged

\* lines 41-43: ch_idx = 0; if (scan_channel > 0)
ScanChooseMode ==
    /\ scan_pc = "L41"
    /\ ch_idx' = 0
    /\ scan_pc' = IF scan_channel > 0 THEN "L45" ELSE "L62"
    /\ UNCHANGED <<radio_channel, notifyVars>> /\ ScanUnchanged

\* lines 45 and 53: esp_wifi_set_channel((uint8_t)scan_channel, ...)
ScanTuneSingle ==
    /\ scan_pc \in {"L45", "L53"}
    /\ radio_channel' = scan_channel % U8
    /\ scan_pc' = "L47"
    /\ UNCHANGED <<ch_idx, notifyVars>> /\ ScanUnchanged

\* the loop of line 47 never looks at scanning
ScanSingleLoop_IgnoresScanning ==
    /\ scan_pc = "L47"
    /\ scan_pc' = "L48"
    /\ UNCHANGED <<ch_idx, radio_channel, notifyVars>> /\ ScanUnchanged

\* line 47: while (scanning)
ScanSingleLoop ==
    /\ scan_pc = "L47"
    /\ scan_pc' = IF scanning THEN "L48" ELSE "L39"
    /\ UNCHANGED <<ch_idx, radio_channel, notifyVars>> /\ ScanUnchanged

\* line 48: if (ulTaskNotifyTake(pdTRUE, pdMS_TO_TICKS(2500)))
ScanSingleTake ==
    /\ TakeReturns("L48", "L50")
    /\ UNCHANGED <<ch_idx, radio_channel>> /\ ScanUnchanged

ScanSingleBlock ==
    /\ TakeBlocks("L48", "L48w")
    /\ UNCHANGED <<ch_idx, radio_channel>> /\ ScanUnchanged

ScanSingleWoken ==
    /\ TakeWoken("L48w", "L50", "L47")
    /\ UNCHANGED <<ch_idx, radio_channel>> /\ ScanUnchanged

ScanSingleTimeout ==
    /\ TakeTimesOut("L48w", "L47")
    /\ UNCHANGED <<ch_idx, radio_channel>> /\ ScanUnchanged

\* line 50: if (!scanning) break;
ScanSingleRenotified ==
    /\ scan_pc = "L50"
    /\ scan_pc' = IF ~scanning THEN "L39" ELSE "L52"
    /\ UNCHANGED <<ch_idx, radio_channel, notifyVars>> /\ ScanUnchanged

\* lines 52-57: if (scan_channel > 0) re-apply, else break
ScanSingleRecheck ==
    /\ scan_pc = "L52"
    /\ scan_pc' = IF scan_channel > 0 THEN "L53" ELSE "L39"
    /\ UNCHANGED <<ch_idx, radio_channel, notifyVars>> /\ ScanUnchanged

\* line 62: while (scanning)
ScanAllLoop ==
    /\ scan_pc = "L62"
    /\ scan_pc' = IF scanning THEN "L63" ELSE "L39"
    /\ UNCHANGED <<ch_idx, radio_channel, notifyVars>> /\ ScanUnchanged

\* lines 63-65: tune channels[ch_idx], advance ch_idx
ScanTuneAll ==
    /\ scan_pc = "L63"
    /\ radio_channel' = channels[ch_idx + 1]
    /\ ch_idx' = (ch_idx + 1) % num_channels
    /\ scan_pc' = "L67"
    /\ UNCHANGED notifyVars /\ ScanUnchanged

\* lines 67-71: a non-zero take leaves the loop (both branches break)
ScanAllTake ==
    /\ TakeReturns("L67", "L39")
    /\ UNCHANGED <<ch_idx, radio_channel>> /\ ScanUnchanged

ScanAllBlock ==
    /\ TakeBlocks("L67", "L67w")
    /\ UNCHANGED <<ch_idx, radio_channel>> /\ ScanUnchanged

ScanAllWoken ==
    /\ TakeWoken("L67w", "L39", "L62")
    /\ UNCHANGED <<ch_idx, radio_channel>> /\ ScanUnchanged

ScanAllTimeout ==
    /\ TakeTimesOut("L67w", "L62")
    /\ UNCHANGED <<ch_idx, radio_channel>> /\ ScanUnchanged

scan_task ==
    \/ ScanIdleTake \/ ScanIdleBlock \/ ScanIdleWoken
    \/ ScanChooseMode \/ ScanTuneSingle \/ ScanSingleLoop
    \/ ScanSingleTake \/ ScanSingleBlock \/ ScanSingleWoken
    \/ ScanSingleTimeout \/ ScanSingleRenotified \/ ScanSingleRecheck
    \/ ScanAllLoop \/ ScanTuneAll
    \/ ScanAllTake \/ ScanAllBlock \/ ScanAllWoken \/ ScanAllTimeout

(* ------------------------------------------------------------------ *)
(* Capture pipeline: buffer pool, proto_send_frame, proto_tx_task       *)
(* ------------------------------------------------------------------ *)
Slots == 1..BUF_POOL_SIZE

\* sig_len values the radio reports: the longest frame supported and
\* one byte more
SigLens == {MAX_FRAME_LEN, MAX_FRAME_LEN + 1}

\* what a slot holds: header and metadata fields, number of raw frame
\* bytes copied in, and the capture number of the frame (history)
EmptySlot ==
    [msg_type |-> 0, payload_len |-> 0, frame_len |-> 0, seq_num |-> 0,
     raw_len |-> 0, g_cap |-> 0]

\* xQueueSend(queue, item, 0) on a queue of BUF_POOL_SIZE entries
QueueHasRoom_HalfSize(queue) == Len(queue) < BUF_POOL_SIZE \div 2
QueueHasRoom(queue) == Len(queue) < BUF_POOL_SIZE
xQueueSend(queue, item) ==
    IF QueueHasRoom(queue) THEN Append(queue, item) ELSE queue

PipeUnchanged ==
    UNCHANGED <<cmdVars, host_quiet, notifyVars, scanVars, hostVars,
                rxVars, clientVars>>

\* the check of line 195 left out: a slot is taken while scanning is off
ProdAcquireWith_NoScanCheck(sig_len) ==
    /\ prod_pc = "idle"
    /\ g_captured < MaxFrames
    /\ IF sig_len > MAX_FRAME_LEN
       THEN UNCHANGED <<pool_queue, prod_pc, prod_buf, prod_sig_len,
                        g_captured, g_pool_lost>>
       ELSE /\ g_captured' = g_captured + 1
            /\ IF pool_queue = <<>>
               THEN /\ g_pool_lost' = g_pool_lost \cup {g_captured + 1}
                    /\ UNCHANGED <<pool_queue, prod_pc, prod_buf,
                                   prod_sig_len>>
               ELSE /\ prod_buf' = Head(pool_queue)
                    /\ pool_queue' = Tail(pool_queue)
                    /\ prod_sig_len' = sig_len
                    /\ prod_pc' = "fill"
                    /\ UNCHANGED g_pool_lost
    /\ UNCHANGED <<tx_queue, buf_pool, frame_seq, tx_pc, tx_item, wire>>
    /\ PipeUnchanged

\* the check of line 198 left out: a slot is taken for any sig_len
ProdAcquireWith_NoLenCheck(sig_len) ==
    /\ prod_pc = "idle"
    /\ g_captured < MaxFrames
    /\ IF ~scanning
       THEN UNCHANGED <<pool_queue, prod_pc, prod_buf, prod_sig_len,
                        g_captured, g_pool_lost>>
       ELSE /\ g_captured' = g_captured + 1
            /\ IF pool_queue = <<>>
               THEN /\ g_pool_lost' = g_pool_lost \cup {g_captured + 1}
                    /\ UNCHANGED <<pool_queue, prod_pc, prod_buf,
                                   prod_sig_len>>
               ELSE /\ prod_buf' = Head(pool_queue)
                    /\ pool_queue' = Tail(pool_queue)
                    /\ prod_sig_len' = sig_len
                    /\ prod_pc' = "fill"
                    /\ UNCHANGED g_pool_lost
    /\ UNCHANGED <<tx_queue, buf_pool, frame_seq, tx_pc, tx_item, wire>>
    /\ PipeUnchanged

\* lines 195-202: the checks and the non-blocking acquire, for a packet
\* of sig_len bytes.  A callback that returns at line 195 or 198 leaves
\* every variable as it is.
ProdAcquireWith(sig_len) ==
    /\ prod_pc = "idle"
    /\ g_captured < MaxFrames
    /\ IF ~scanning \/ sig_len > MAX_FRAME_LEN
       THEN UNCHANGED <<pool_queue, prod_pc, prod_buf, prod_sig_len,
                        g_captured, g_pool_lost>>
       ELSE /\ g_captured' = g_captured + 1
            /\ IF pool_queue = <<>>
               THEN /\ g_pool_lost' = g_pool_lost \cup {g_captured + 1}
                    /\ UNCHANGED <<pool_queue, prod_pc, prod_buf,
                                   prod_sig_len>>
               ELSE /\ prod_buf' = Head(pool_queue)
                    /\ pool_queue' = Tail(pool_queue)
                    /\ prod_sig_len' = sig_len
                    /\ prod_pc' = "fill"
                    /\ UNCHANGED g_pool_lost
    /\ UNCHANGED <<tx_queue, buf_pool, frame_seq, tx_pc, tx_item, wire>>
    /\ PipeUnchanged

ProdAcquire == \E sig_len \in SigLens : ProdAcquireWith(sig_len)

\* lines 205-225: header, metadata (seq_num = frame_seq++) and raw bytes
FillSlot(sig_len, seq, cap) ==
    [msg_type |-> MSG_EVT_FRAME,
     payload_len |-> (META_SIZE + sig_len) % U16,
     frame_len |-> sig_len,
     seq_num |-> seq,
     raw_len |-> sig_len,
     g_cap |-> cap]

\* the counter kept in an int
NextSeq_NoWrap(seq) == seq + 1

\* line 222: frame_seq++ on a uint16_t
NextSeq(seq) == (seq + 1) % U16

\* the slot is returned to the pool although the enqueue succeeded
ProdEnqueue_AlwaysRelease ==
    /\ prod_pc = "fill"
    /\ buf_pool' = [buf_pool EXCEPT
                      ![prod_buf] = FillSlot(prod_sig_len, frame_seq,
                                             g_captured)]
    /\ frame_seq' = NextSeq(frame_seq)
    /\ tx_queue' = xQueueSend(tx_queue,
                     [buf |-> prod_buf,
                      len |-> HDR_SIZE + META_SIZE + prod_sig_len])
    /\ pool_queue' = xQueueSend(pool_queue, prod_buf)
    /\ prod_buf' = 0
    /\ prod_pc' = "idle"
    /\ UNCHANGED <<prod_sig_len, tx_pc, tx_item, wire, g_captured,
                   g_pool_lost>>
    /\ PipeUnchanged

\* lines 205-235: fill the slot, then xQueueSend to the TX queue; when
\* that fails the slot goes back to the pool
ProdEnqueue ==
    /\ prod_pc = "fill"
    /\ buf_pool' = [buf_pool EXCEPT
                      ![prod_buf] = FillSlot(prod_sig_len, frame_seq,
                                             g_captured)]
    /\ frame_seq' = NextSeq(frame_seq)
    /\ IF QueueHasRoom(tx_queue)
       THEN /\ tx_queue' = xQueueSend(tx_queue,
                             [buf |-> prod_buf,
                              len |-> HDR_SIZE + META_SIZE + prod_sig_len])
            /\ UNCHANGED pool_queue
       ELSE /\ pool_queue' = xQueueSend(pool_queue, prod_buf)
            /\ UNCHANGED tx_queue
    /\ prod_buf' = 0
    /\ prod_pc' = "idle"
    /\ UNCHANGED <<prod_sig_len, tx_pc, tx_item, wire, g_captured,
                   g_pool_lost>>
    /\ PipeUnchanged

\* the TX task takes the newest item of the queue
TxDequeue_TakesNewest ==
    /\ tx_pc = "wait"
    /\ tx_queue # <<>>
    /\ tx_item' = tx_queue[Len(tx_queue)]
    /\ tx_queue' = SubSeq(tx_queue, 1, Len(tx_queue) - 1)
    /\ tx_pc' = "write"
    /\ UNCHANGED <<pool_queue, buf_pool, frame_seq, prod_pc, prod_buf,
                   prod_sig_len, wire, g_captured, g_pool_lost>>
    /\ PipeUnchanged

\* line 248: xQueueReceive(tx_queue, &item, portMAX_DELAY)
TxDequeue ==
    /\ tx_pc = "wait"
    /\ tx_queue # <<>>
    /\ tx_item' = Head(tx_queue)
    /\ tx_queue' = Tail(tx_queue)
    /\ tx_pc' = "write"
    /\ UNCHANGED <<pool_queue, buf_pool, frame_seq, prod_pc, prod_buf,
                   prod_sig_len, wire, g_captured, g_pool_lost>>
    /\ PipeUnchanged

\* the item.len bytes of a slot as one message on the link
SlotMessage(item) ==
    LET c == buf_pool[item.buf]
    IN  [msg_type |-> c.msg_type, payload_len |-> c.payload_len,
         frame_len |-> c.frame_len, seq_num |-> c.seq_num,
         total_len |-> item.len, g_cap |-> c.g_cap]

\* lines 251-255: encode and write delimiter, body, delimiter; the link
\* takes the bytes
TxWrite ==
    /\ tx_pc = "write"
    /\ Len(wire) < MaxWire
    /\ wire' = Append(wire, SlotMessage(tx_item))
    /\ tx_pc' = "release"
    /\ UNCHANGED <<pool_queue, tx_queue, buf_pool, frame_seq, prod_pc,
                   prod_buf, prod_sig_len, tx_item, g_captured, g_pool_lost>>
    /\ PipeUnchanged

\* lines 253-255 when the link is full and the host does not read: each
\* usb_serial_jtag_write_bytes returns when its timeout (100, 500, 100 ms)
\* expires, the frame is not delivered and the task goes on to line 258
TxWriteTimeout ==
    /\ tx_pc = "write"
    /\ Len(wire) >= MaxWire
    /\ tx_pc' = "release"
    /\ UNCHANGED <<pool_queue, tx_queue, buf_pool, frame_seq, prod_pc,
                   prod_buf, prod_sig_len, tx_item, wire, g_captured,
                   g_pool_lost>>
    /\ PipeUnchanged

\* the slot is not given back to the pool
TxRelease_Leak ==
    /\ tx_pc = "release"
    /\ tx_pc' = "wait"
    /\ UNCHANGED <<pool_queue, tx_queue, buf_pool, frame_seq, prod_pc,
                   prod_buf, prod_sig_len, tx_item, wire, g_captured,
                   g_pool_lost>>
    /\ PipeUnchanged

\* line 258: xQueueSend(pool_queue, &item.buf, 0)
TxRelease ==
    /\ tx_pc = "release"
    /\ pool_queue' = xQueueSend(pool_queue, tx_item.buf)
    /\ tx_pc' = "wait"
    /\ UNCHANGED <<tx_queue, buf_pool, frame_seq, prod_pc, prod_buf,
                   prod_sig_len, tx_item, wire, g_captured, g_pool_lost>>
    /\ PipeUnchanged

proto_send_frame == ProdAcquire \/ ProdEnqueue
proto_tx_task == TxDequeue \/ TxWrite \/ TxWriteTimeout \/ TxRelease

(* ------------------------------------------------------------------ *)
(* Host: SnifferClient._handleFrame                                     *)
(* ------------------------------------------------------------------ *)
Min(a, b) == IF a < b THEN a ELSE b

Host ==
    [frameCount |-> frameCount, dropped |-> dropped,
     seqExpect |-> seqExpect, firstSeq |-> firstSeq]

\* bytes of payload that data.slice(HDR_SIZE, HDR_SIZE + payloadLen)
\* yields (line 315)
PayloadPresent(msg) == Min(msg.payload_len, msg.total_len - HDR_SIZE)

\* the check of line 327 left out
FrameAccepted_NoFrameLenCheck(msg) ==
    /\ msg.total_len >= HDR_SIZE
    /\ PayloadPresent(msg) >= META_SIZE

\* the frame passes the length checks of lines 312-327
FrameAccepted(msg) ==
    LET payloadLen == Min(msg.payload_len, msg.total_len - HDR_SIZE)
        frameDataLen == Min(msg.frame_len, payloadLen - META_SIZE)
    IN  /\ msg.total_len >= HDR_SIZE
        /\ payloadLen >= META_SIZE
        /\ frameDataLen >= msg.frame_len

\* every gap is counted, the backward ones too
handleFrame_CountsEveryGap(h, msg) ==
    IF ~FrameAccepted(msg) THEN h
    ELSE LET gap == (msg.seq_num - h.seqExpect) % U16
         IN  [frameCount |-> h.frameCount + 1,
              dropped |-> IF ~h.firstSeq /\ msg.seq_num # h.seqExpect
                          THEN h.dropped + gap ELSE h.dropped,
              seqExpect |-> (msg.seq_num + 1) % U16,
              firstSeq |-> FALSE]

\* the gap is measured from the frame after the expected one
handleFrame_GapFromNext(h, msg) ==
    IF ~FrameAccepted(msg) THEN h
    ELSE LET gap == (msg.seq_num - h.seqExpect - 1) % U16
         IN  [frameCount |-> h.frameCount + 1,
              dropped |-> IF ~h.firstSeq /\ msg.seq_num # h.seqExpect
                             /\ gap < 32768
                          THEN h.dropped + gap ELSE h.dropped,
              seqExpect |-> (msg.seq_num + 1) % U16,
              firstSeq |-> FALSE]

\* lines 331-341: drop detection and frameCount
handleFrame(h, msg) ==
    IF ~FrameAccepted(msg) THEN h
    ELSE LET gap == (msg.seq_num - h.seqExpect) % U16
         IN  [frameCount |-> h.frameCount + 1,
              dropped |-> IF ~h.firstSeq /\ msg.seq_num # h.seqExpect
                             /\ gap < 32768
                          THEN h.dropped + gap ELSE h.dropped,
              seqExpect |-> (msg.seq_num + 1) % U16,
              firstSeq |-> FALSE]

\* _handleFrame(decoded): the counters, and the frame callback of line 342
HandleFrameCall(msg) ==
    LET h == handleFrame(Host, msg)
    IN  /\ frameCount' = h.frameCount
        /\ dropped' = h.dropped
        /\ seqExpect' = h.seqExpect
        /\ firstSeq' = h.firstSeq
        /\ IF h.frameCount # frameCount
           THEN /\ g_delivered' = Append(g_delivered, msg.seq_num)
                /\ g_host_last' = msg.g_cap
                /\ g_host_first' = IF firstSeq THEN msg.g_cap
                                   ELSE g_host_first
           ELSE UNCHANGED <<g_delivered, g_host_first, g_host_last>>

IsResponse(msg) ==
    msg.msg_type \in {MSG_RSP_ACK, MSG_RSP_ERROR, MSG_RSP_PROMISC_STATUS}

\* the pending slot keeps the resolver after it has been called
ResolvePending_KeepsSlot(msg) ==
    IF respResolve # 0
    THEN /\ cmd_state' = [cmd_state EXCEPT ![respResolve] =
                            IF @ = "await" THEN "resolved" ELSE @]
         /\ g_resolved_by' = [g_resolved_by EXCEPT ![respResolve] =
                            IF cmd_state[respResolve] = "await"
                            THEN msg.g_for ELSE @]
         /\ UNCHANGED respResolve
    ELSE UNCHANGED <<respResolve, cmd_state, g_resolved_by>>

\* lines 303-306: if (_respResolve) { _respResolve(decoded); _respResolve =
\* null }.  Resolving a promise that is already settled has no effect.
ResolvePending(msg) ==
    IF respResolve # 0
    THEN /\ cmd_state' = [cmd_state EXCEPT ![respResolve] =
                            IF @ = "await" THEN "resolved" ELSE @]
         /\ g_resolved_by' = [g_resolved_by EXCEPT ![respResolve] =
                            IF cmd_state[respResolve] = "await"
                            THEN msg.g_for ELSE @]
         /\ respResolve' = 0
    ELSE UNCHANGED <<respResolve, cmd_state, g_resolved_by>>

\* lines 292-307: one decoded message, routed by its msg_type
HostProcess(msg) ==
    /\ g_host_in' = g_host_in + 1
    /\ IF msg.total_len < HDR_SIZE
       THEN UNCHANGED <<frameCount, dropped, seqExpect, firstSeq,
                        g_host_first, g_host_last, g_delivered,
                        respResolve, cmd_state, g_resolved_by>>
       ELSE IF msg.msg_type = MSG_EVT_FRAME
       THEN /\ HandleFrameCall(msg)
            /\ UNCHANGED <<respResolve, cmd_state, g_resolved_by>>
       ELSE IF IsResponse(msg)
       THEN /\ ResolvePending(msg)
            /\ UNCHANGED <<frameCount, dropped, seqExpect, firstSeq,
                           g_host_first, g_host_last, g_delivered>>
       ELSE UNCHANGED <<frameCount, dropped, seqExpect, firstSeq,
                        g_host_first, g_host_last, g_delivered,
                        respResolve, cmd_state, g_resolved_by>>

\* the read loop receives one frame event and processes it
HostReadFrame ==
    /\ wire # <<>>
    /\ HostProcess(Head(wire))
    /\ wire' = Tail(wire)
    /\ UNCHANGED <<pool_queue, tx_queue, buf_pool, frame_seq, prod_pc,
                   prod_buf, prod_sig_len, tx_pc, tx_item, g_captured,
                   g_pool_lost>>
    /\ UNCHANGED <<next_cmd, to_dev, to_host, g_overlap, connVars, byteVars,
                   linkVars, accVars, frameVars>>
    /\ UNCHANGED <<cmdVars, host_quiet, notifyVars, scanVars, rxVars>>

\* frame events as the read loop may decode them.  A well-formed event
\* carries 24 raw bytes after the metadata.
RawLen == 24
FrameEvent(seq, frame_len, payload_len, total_len) ==
    [msg_type |-> MSG_EVT_FRAME, payload_len |-> payload_len,
     frame_len |-> frame_len, seq_num |-> seq, total_len |-> total_len,
     g_cap |-> 0]

\* sequence numbers: consecutive ones, a gap of one, the two values
\* around half the range, and one below the wrap
HostSeqs == {0, 1, 2, 4, 32768, 32769, 65534}

GoodFrames ==
    {FrameEvent(q, RawLen, META_SIZE + RawLen, HDR_SIZE + META_SIZE + RawLen)
       : q \in HostSeqs}

\* frame_len one more than the raw bytes present; a message cut short
\* of its declared payload; a header declaring fewer raw bytes than
\* frame_len; a payload one byte short of the metadata; a bare header
BadFrames ==
    {FrameEvent(7, RawLen + 1, META_SIZE + RawLen,
                HDR_SIZE + META_SIZE + RawLen),
     FrameEvent(7, RawLen, META_SIZE + RawLen, HDR_SIZE + META_SIZE + 10),
     FrameEvent(7, RawLen, META_SIZE + 10, HDR_SIZE + META_SIZE + RawLen),
     FrameEvent(7, 0, META_SIZE - 1, HDR_SIZE + META_SIZE - 1),
     FrameEvent(7, 0, 0, HDR_SIZE)}

HostFrameMsgs == GoodFrames \cup BadFrames

\* the read loop has decoded msg and _process looks at it
HostRecv(msg) ==
    /\ g_host_in < MaxHostMsgs
    /\ HostProcess(msg)
    /\ UNCHANGED <<next_cmd, to_dev, to_host, g_overlap, connVars, byteVars,
                   linkVars, accVars, frameVars>>
    /\ UNCHANGED <<cmdVars, host_quiet, notifyVars, scanVars, pipeVars,
                   rxVars>>

HostReadLoop == \E msg \in HostFrameMsgs : HostRecv(msg)

(* ------------------------------------------------------------------ *)
(* Host commands: SnifferClient._sendCmd, the device answering, and the *)
(* read loop resolving the pending promise.  A command is "await" from  *)
(* line 191 until its race settles, "resolved" once _process has called *)
(* its resolver, "done" after the finally of line 210 has run and       *)
(* _sendCmd has returned, "timeout" after the timer rejected it.        *)
(* ------------------------------------------------------------------ *)
HostCmdIds == 1..MaxHostCmds

PromiscQueryMsg == MsgHdr(MSG_CMD_PROMISC_QUERY, 0, 0)

\* client.stop() and client.promiscStatus()
HostCmds == {ScanStopMsg, PromiscQueryMsg}

\* a command is inside _sendCmd
InSendCmd(c) == cmd_state[c] \in {"await", "resolved"}

\* lines 170-198: build the packet, store the resolver, write the packet
HostSendCmdWith(data) ==
    /\ port = "open"
    /\ next_cmd < MaxHostCmds
    /\ LET c == next_cmd + 1
       IN  /\ next_cmd' = c
           /\ respResolve' = c
           /\ cmd_state' = [cmd_state EXCEPT ![c] = "await"]
           /\ to_dev' = Append(to_dev, [data |-> data, g_id |-> c])
           /\ g_overlap' = (\/ g_overlap
                            \/ \E k \in HostCmdIds : InSendCmd(k)
                            \/ disc_pc = "cancel")
    /\ UNCHANGED <<g_resolved_by, to_host, connVars, byteVars,
                   linkVars, accVars, frameVars>>
    /\ UNCHANGED <<cmdVars, host_quiet, notifyVars, scanVars, pipeVars,
                   hostVars, rxVars>>

HostSendCmd == \E data \in HostCmds : HostSendCmdWith(data)

\* proto_rx_task dispatches the next command packet; send_raw writes the
\* response to the link
DeviceAnswer ==
    /\ to_dev # <<>>
    /\ LET pkt == Head(to_dev)
           o == handle_command(Shared, pkt.data)
       IN  /\ scanning' = o.state.scanning
           /\ promisc_on' = o.state.promisc_on
           /\ scan_channel' = o.state.scan_channel
           /\ scan_filter' = o.state.scan_filter
           /\ wifi_promisc' = o.state.wifi_promisc
           /\ wifi_filter' = o.state.wifi_filter
           /\ RunsBesideScanTask
           /\ last_rsp' = IF o.rsp = <<>> THEN last_rsp ELSE o.rsp
           /\ IF o.notify = NoNotify
              THEN UNCHANGED notifyVars
              ELSE xTaskNotify(o.notify)
           /\ to_host' = IF o.rsp = <<>> THEN to_host
                         ELSE Append(to_host,
                                [msg_type |-> o.rsp[1],
                                 total_len |-> Len(o.rsp),
                                 bytes |-> o.rsp,
                                 g_for |-> pkt.g_id])
    /\ to_dev' = Tail(to_dev)
    /\ UNCHANGED <<respResolve, next_cmd, cmd_state, g_resolved_by,
                   g_overlap, connVars, byteVars,
                   linkVars, accVars, frameVars>>
    /\ UNCHANGED <<host_quiet, scanVars, pipeVars, hostVars, rxVars>>

\* the read loop decodes the next response and _process looks at it
HostReadRsp ==
    /\ reader_pc = "read"
    /\ to_host # <<>>
    /\ HostProcess(Head(to_host))
    /\ to_host' = Tail(to_host)
    /\ UNCHANGED <<next_cmd, to_dev, g_overlap, connVars, byteVars,
                   linkVars, accVars, frameVars>>
    /\ UNCHANGED <<cmdVars, host_quiet, notifyVars, scanVars, pipeVars,
                   rxVars>>

\* lines 210-213 after the resolver was called: finally clears the timer
\* and the slot, _sendCmd returns the response
HostFinally ==
    \E c \in HostCmdIds :
      /\ cmd_state[c] = "resolved"
      /\ cmd_state' = [cmd_state EXCEPT ![c] = "done"]
      /\ respResolve' = 0
      /\ UNCHANGED <<next_cmd, g_resolved_by, to_dev, to_host, g_overlap,
                     connVars, byteVars,
                   linkVars, accVars, frameVars>>
      /\ UNCHANGED <<cmdVars, host_quiet, notifyVars, scanVars, pipeVars,
                     hostVars, rxVars>>

\* the timer fires and the slot is left as it is
HostTimeout_KeepsSlot ==
    \E c \in HostCmdIds :
      /\ cmd_state[c] = "await"
      /\ cmd_state' = [cmd_state EXCEPT ![c] = "timeout"]
      /\ UNCHANGED <<respResolve, next_cmd, g_resolved_by, to_dev, to_host,
                     g_overlap, connVars, byteVars, linkVars, accVars,
                     frameVars>>
      /\ UNCHANGED <<cmdVars, host_quiet, notifyVars, scanVars, pipeVars,
                     hostVars, rxVars>>

\* lines 205-213: the timer fires, the race rejects with
\* SnifferError(msgType, 0xff) and finally clears the slot
HostTimeout ==
    \E c \in HostCmdIds :
      /\ cmd_state[c] = "await"
      /\ cmd_state' = [cmd_state EXCEPT ![c] = "timeout"]
      /\ respResolve' = 0
      /\ UNCHANGED <<next_cmd, g_resolved_by, to_dev, to_host, g_overlap,
                     connVars, byteVars,
                   linkVars, accVars, frameVars>>
      /\ UNCHANGED <<cmdVars, host_quiet, notifyVars, scanVars, pipeVars,
                     hostVars, rxVars>>

(* ------------------------------------------------------------------ *)
(* COBS codec: cobs.c (cobs_encode, cobs_decode) and cobs.js (encode,   *)
(* decode).  Sequences are 1-based: i is the index of the next source   *)
(* byte, code_ptr the index of the code byte still to be filled in.     *)
(* A decoder's result: ok (FALSE: -1 returned / exception thrown), the  *)
(* bytes written, and hi, the highest index of the input it has read.   *)
(* ------------------------------------------------------------------ *)
DecodeFailed(hi) == [ok |-> FALSE, out |-> <<>>, hi |-> hi]

\* the literal bytes the encoder's loop puts into the block that starts
\* at source index i: the non-zero bytes up to the next zero, the end of
\* the source, or limit bytes
BlockLen(src, i, limit) ==
    LET stop == Min(i + limit - 1, Len(src))
        zeros == {k \in i..stop : src[k] = 0}
    IN  IF zeros = {} THEN stop - i + 1
        ELSE (CHOOSE k \in zeros : \A z \in zeros : k <= z) - i

RECURSIVE EncodeBlocksNoSplit(_, _, _)
EncodeBlocksNoSplit(src, i, dst) ==
    IF i > Len(src) THEN Append(dst, 1)
    ELSE LET n == BlockLen(src, i, Len(src))
             block == <<(n + 1) % U8>> \o SubSeq(src, i, i + n - 1)
         IN  IF i + n > Len(src) THEN dst \o block
             ELSE EncodeBlocksNoSplit(src, i + n + 1, dst \o block)

\* the block is not closed at 254 literal bytes: the code byte wraps
cobs_encode_NoSplit(src) == EncodeBlocksNoSplit(src, 1, <<>>)

\* cobs.c:9-27, one block per call.  The loop closes a block when it
\* meets a zero (lines 10-14) or when code reaches 0xFF (lines 19-23);
\* line 27 writes the code of the block open at the end.
RECURSIVE CEncodeBlocks(_, _, _)
CEncodeBlocks(src, i, dst) ==
    IF i > Len(src) THEN Append(dst, 1)
    ELSE LET n == BlockLen(src, i, 254)
             block == <<n + 1>> \o SubSeq(src, i, i + n - 1)
         IN  IF n = 254
             THEN CEncodeBlocks(src, i + n, dst \o block)
             ELSE IF i + n > Len(src) THEN dst \o block
             ELSE CEncodeBlocks(src, i + n + 1, dst \o block)

\* cobs.c:3-29: the out bytes written to dst
cobs_encode(src) == CEncodeBlocks(src, 1, <<>>)

RECURSIVE DecodeLoopLenient(_, _, _)
DecodeLoopLenient(src, i, out) ==
    IF i > Len(src) THEN [ok |-> TRUE, out |-> out, hi |-> Len(src)]
    ELSE LET code == src[i]
             last == Min(i + code - 1, Len(src))
             next == last + 1
         IN  IF code = 0 THEN DecodeFailed(i)
             ELSE DecodeLoopLenient(src, next,
                    out \o SubSeq(src, i + 1, last)
                        \o (IF code < 255 /\ next <= Len(src)
                            THEN <<0>> ELSE <<>>))

\* a block cut short is taken as far as it goes
cobs_decode_TakesWhatRemains(src) == DecodeLoopLenient(src, 1, <<>>)

\* cobs.c:36-48, one block per call; the copy loop of lines 40-43 stops
\* with -1 when the input ends before code - 1 bytes were copied
RECURSIVE CDecodeLoop(_, _, _, _)
CDecodeLoop(src, i, out, hi) ==
    IF i > Len(src) THEN [ok |-> TRUE, out |-> out, hi |-> hi]
    ELSE LET code == src[i]
             last == i + code - 1
             next == last + 1
         IN  IF code = 0 THEN DecodeFailed(i)
             ELSE IF last > Len(src) THEN DecodeFailed(Len(src))
             ELSE CDecodeLoop(src, next,
                    out \o SubSeq(src, i + 1, last)
                        \o (IF code < 255 /\ next <= Len(src)
                            THEN <<0>> ELSE <<>>),
                    last)

\* cobs.c:31-51
cobs_decode(src) == CDecodeLoop(src, 1, <<>>, 0)

\* cobs.js:7-25, one block per call: closed at a zero (lines 8-13) or
\* when code reaches 0xff (lines 17-22); line 25 fills in the last code
RECURSIVE JsEncodeBlocks(_, _, _)
JsEncodeBlocks(data, k, out) ==
    IF k > Len(data) THEN Append(out, 1)
    ELSE LET n == BlockLen(data, k, 254)
             block == <<n + 1>> \o SubSeq(data, k, k + n - 1)
         IN  IF n = 254
             THEN JsEncodeBlocks(data, k + n, out \o block)
             ELSE IF k + n > Len(data) THEN out \o block
             ELSE JsEncodeBlocks(data, k + n + 1, out \o block)

\* cobs.js:2-27
encode(data) == JsEncodeBlocks(data, 1, <<>>)

\* cobs.js:32-48, one block per call
RECURSIVE JsDecodeLoop(_, _, _, _)
JsDecodeLoop(data, i, out, hi) ==
    IF i > Len(data) THEN [ok |-> TRUE, out |-> out, hi |-> hi]
    ELSE LET code == data[i]
             last == i + code - 1
             next == last + 1
         IN  IF code = 0 THEN DecodeFailed(i)
             ELSE IF last > Len(data) THEN DecodeFailed(Len(data))
             ELSE JsDecodeLoop(data, next,
                    out \o SubSeq(data, i + 1, last)
                        \o (IF code < 255 /\ next <= Len(data)
                            THEN <<0>> ELSE <<>>),
                    last)

\* cobs.js:28-50
decode(data) == JsDecodeLoop(data, 1, <<>>, 0)

\* messages to encode: every sequence of up to MaxShort bytes out of
\* 0, 1 and 255, and runs of non-zero bytes around the block limit of
\* 254, alone and next to a zero
MaxShort == 3
ShortSeqs(S) == UNION {[1..n -> S] : n \in 0..MaxShort}
Run(n) == [k \in 1..n |-> 1 + (k % 255)]
LongMsgs ==
    {Run(253), Run(254), Run(255), Run(256), Run(508), Run(509),
     Run(254) \o <<0>>, <<0>> \o Run(254), Run(254) \o <<0>> \o Run(254),
     Run(253) \o <<0>> \o Run(255), <<0, 0, 0, 0, 0, 0, 0, 0>>}
CobsMsgs == ShortSeqs({0, 1, 255}) \cup LongMsgs

\* spans as they may arrive: every sequence of up to MaxShort bytes out
\* of 0, 1, 2, 3 and 255, and a full block one byte short
RawSpans == ShortSeqs({0, 1, 2, 3, 255}) \cup {<<255>> \o Run(253)}

CodecUnchanged ==
    UNCHANGED <<cmdVars, host_quiet, notifyVars, scanVars, pipeVars,
                hostVars, rxVars, respResolve, next_cmd, cmd_state,
                g_resolved_by, to_dev, to_host, g_overlap, connVars, buf,
                stream, g_sent, g_dispatched, linkVars, accVars, frameVars>>

\* the firmware encodes a message (send_raw, proto_tx_task)
CodecEncodeC ==
    /\ cobs_pc = "idle"
    /\ \E x \in CobsMsgs :
         /\ cobs_src' = x
         /\ cobs_wire' = cobs_encode(x)
    /\ cobs_pc' = "wire"
    /\ g_codec' = <<"c", "none">>
    /\ UNCHANGED cobs_res
    /\ CodecUnchanged

\* the client encodes a message (_sendCmd line 183)
CodecEncodeJs ==
    /\ cobs_pc = "idle"
    /\ \E x \in CobsMsgs :
         /\ cobs_src' = x
         /\ cobs_wire' = encode(x)
    /\ cobs_pc' = "wire"
    /\ g_codec' = <<"js", "none">>
    /\ UNCHANGED cobs_res
    /\ CodecUnchanged

\* a span that no encoder produced arrives (noise, a span cut short)
CodecRawSpan ==
    /\ cobs_pc = "idle"
    /\ \E w \in RawSpans : cobs_wire' = w
    /\ cobs_pc' = "wire"
    /\ g_codec' = <<"raw", "none">>
    /\ UNCHANGED <<cobs_src, cobs_res>>
    /\ CodecUnchanged

\* the firmware decodes the span (proto_rx_task line 374)
CodecDecodeC ==
    /\ cobs_pc = "wire"
    /\ cobs_res' = cobs_decode(cobs_wire)
    /\ cobs_pc' = "done"
    /\ g_codec' = <<g_codec[1], "c">>
    /\ UNCHANGED <<cobs_src, cobs_wire>>
    /\ CodecUnchanged

\* the client decodes the span (_process line 287)
CodecDecodeJs ==
    /\ cobs_pc = "wire"
    /\ cobs_res' = decode(cobs_wire)
    /\ cobs_pc' = "done"
    /\ g_codec' = <<g_codec[1], "js">>
    /\ UNCHANGED <<cobs_src, cobs_wire>>
    /\ CodecUnchanged

(* ------------------------------------------------------------------ *)
(* Host reassembler: _appendBuf and _process on the bytes of the link   *)
(* ------------------------------------------------------------------ *)
\* getUint16(at - 1, true) on a 1-based sequence
GetUint16(d, at) == d[at] + U8 * d[at + 1]

\* a frame event as proto_send_frame lays it out (sniffer.c:206-226):
\* header, frame_meta_t (timestamp, frame_len, channel, rssi,
\* noise_floor, pkt_type, rx_state, rate, seq_num, _reserved), raw bytes
U16LE(n) == <<n % U8, (n \div U8) % U8>>
FrameBytes(seq) ==
    MsgHdr(MSG_EVT_FRAME, 0, META_SIZE + RawLen)
      \o <<17, 0, 0, 1>> \o U16LE(RawLen) \o <<6, 200, 160, 0, 0, 11>>
      \o U16LE(seq) \o <<0, 0>> \o [k \in 1..RawLen |-> k % 5]

\* the fields _handleFrame and Frame read from a decoded message of at
\* least HDR_SIZE bytes (lines 314-327, frame.ts:55, :62)
ParseMsg(d) ==
    LET payloadLen == GetUint16(d, 3)
        present == Min(payloadLen, Len(d) - HDR_SIZE)
    IN  [msg_type |-> d[1], payload_len |-> payloadLen,
         total_len |-> Len(d),
         frame_len |-> IF present >= META_SIZE
                       THEN GetUint16(d, HDR_SIZE + 5) ELSE 0,
         seq_num |-> IF present >= META_SIZE
                     THEN GetUint16(d, HDR_SIZE + 13) ELSE 0,
         g_cap |-> 0]

\* _buf.indexOf(0x00), 1-based; 0 stands for -1
IndexOfZero(b) ==
    IF \E k \in 1..Len(b) : b[k] = 0
    THEN CHOOSE k \in 1..Len(b) : b[k] = 0 /\ \A j \in 1..(k - 1) : b[j] # 0
    ELSE 0

\* the client state _process works on
Reassembler ==
    [buf |-> buf, h |-> Host, resolve |-> respResolve,
     cmd_state |-> cmd_state, delivered |-> g_delivered,
     dispatched |-> g_dispatched, decoded |-> g_host_in]

\* line 297: _handleFrame(decoded)
DispatchFrame(st, d) ==
    LET msg == ParseMsg(d)
        h == handleFrame(st.h, msg)
    IN  [st EXCEPT !.h = h,
                   !.delivered = IF h.frameCount # st.h.frameCount
                                 THEN Append(@, msg.seq_num) ELSE @,
                   !.dispatched = Append(@, d),
                   !.decoded = @ + 1]

\* lines 303-306
DispatchResponse(st, d) ==
    [st EXCEPT !.cmd_state = IF st.resolve # 0 /\ @[st.resolve] = "await"
                             THEN [@ EXCEPT ![st.resolve] = "resolved"]
                             ELSE @,
               !.resolve = 0,
               !.dispatched = Append(@, d),
               !.decoded = @ + 1]

\* a span that fails to decode ends the loop; what follows it stays in
\* the buffer
RECURSIVE process_StopsAtBadSpan(_, _)
process_StopsAtBadSpan(b, st) ==
    LET idx == IndexOfZero(b)
    IN  IF idx = 0 THEN [st EXCEPT !.buf = b]
        ELSE IF idx = 1 THEN process_StopsAtBadSpan(Tail(b), st)
        ELSE LET encodedSlice == SubSeq(b, 1, idx - 1)
                 rest == SubSeq(b, idx + 1, Len(b))
                 r == decode(encodedSlice)
             IN  IF ~r.ok THEN [st EXCEPT !.buf = rest]
                 ELSE IF Len(r.out) < HDR_SIZE
                 THEN process_StopsAtBadSpan(rest,
                                             [st EXCEPT !.decoded = @ + 1])
                 ELSE IF r.out[1] = MSG_EVT_FRAME
                 THEN process_StopsAtBadSpan(rest, DispatchFrame(st, r.out))
                 ELSE IF IsResponse(ParseMsg(r.out))
                 THEN process_StopsAtBadSpan(rest,
                                             DispatchResponse(st, r.out))
                 ELSE process_StopsAtBadSpan(rest,
                                             [st EXCEPT !.decoded = @ + 1])

\* _process (lines 272-309): one round of the loop per delimiter found
RECURSIVE process(_, _)
process(b, st) ==
    LET idx == IndexOfZero(b)
    IN  IF idx = 0 THEN [st EXCEPT !.buf = b]
        ELSE IF idx = 1 THEN process(Tail(b), st)
        ELSE LET encodedSlice == SubSeq(b, 1, idx - 1)
                 rest == SubSeq(b, idx + 1, Len(b))
                 r == decode(encodedSlice)
             IN  IF ~r.ok THEN process(rest, st)
                 ELSE IF Len(r.out) < HDR_SIZE
                 THEN process(rest, [st EXCEPT !.decoded = @ + 1])
                 ELSE IF r.out[1] = MSG_EVT_FRAME
                 THEN process(rest, DispatchFrame(st, r.out))
                 ELSE IF IsResponse(ParseMsg(r.out))
                 THEN process(rest, DispatchResponse(st, r.out))
                 ELSE process(rest, [st EXCEPT !.decoded = @ + 1])

\* what the device may put on the link.  A packet is 0x00, the encoded
\* message, 0x00 (send_raw, proto_tx_task); good marks a well-formed
\* message the client knows.
Packet(msg) == <<0>> \o cobs_encode(msg) \o <<0>>
LinkSeqs == {0, 3}
GoodUnits ==
    {[bytes |-> Packet(FrameBytes(q)), msg |-> FrameBytes(q), good |-> TRUE]
       : q \in LinkSeqs}
    \cup {[bytes |-> Packet(proto_send_ack(MSG_CMD_SCAN_STOP)),
           msg |-> proto_send_ack(MSG_CMD_SCAN_STOP), good |-> TRUE]}

\* a lone delimiter; a code byte announcing more than the span holds; a
\* packet cut after its fourth byte (the write timed out); a message of
\* three bytes
BadUnits ==
    {[bytes |-> b, msg |-> <<>>, good |-> FALSE] :
       b \in {<<0>>, <<0, 3, 1, 0>>,
              SubSeq(Packet(FrameBytes(1)), 1, 4),
              Packet(<<MSG_EVT_FRAME, 0, 0>>)}}

LinkUnits == GoodUnits \cup BadUnits

MaxUnits == 3

\* what the reassembler's steps leave alone
ByteUnchanged ==
    /\ UNCHANGED <<cobs_pc, cobs_src, cobs_wire, cobs_res, g_codec>>
    /\ UNCHANGED <<next_cmd, g_resolved_by, to_dev, to_host, g_overlap,
                   connVars, linkVars, accVars, frameVars>>
    /\ UNCHANGED <<cmdVars, host_quiet, notifyVars, scanVars, pipeVars,
                   rxVars>>

\* the device writes one unit to the link
LinkPut(u) ==
    /\ Len(g_sent) < MaxUnits
    /\ stream' = stream \o u.bytes
    /\ g_sent' = Append(g_sent, u)
    /\ UNCHANGED <<buf, g_dispatched, hostVars, respResolve, cmd_state>>
    /\ ByteUnchanged

\* reader.read() returns the next n bytes: lines 239-243, _appendBuf and
\* _process
HostReadChunk(n) ==
    /\ reader_pc = "read"
    /\ n \in 1..Len(stream)
    /\ LET st == process(buf \o SubSeq(stream, 1, n), Reassembler)
       IN  /\ buf' = st.buf
           /\ frameCount' = st.h.frameCount
           /\ dropped' = st.h.dropped
           /\ seqExpect' = st.h.seqExpect
           /\ firstSeq' = st.h.firstSeq
           /\ g_delivered' = st.delivered
           /\ g_dispatched' = st.dispatched
           /\ g_host_in' = st.decoded
           /\ respResolve' = st.resolve
           /\ cmd_state' = st.cmd_state
    /\ stream' = SubSeq(stream, n + 1, Len(stream))
    /\ UNCHANGED <<g_sent, g_host_first, g_host_last>>
    /\ ByteUnchanged

\* a read returns everything on the link, or, when nothing is buffered,
\* the first half of it
ChunkSizes ==
    {Len(stream)} \cup (IF buf = <<>> THEN {Len(stream) \div 2} ELSE {})

HostReadBytes == \E n \in ChunkSizes : HostReadChunk(n)

(* ------------------------------------------------------------------ *)
(* Host connection: disconnect() and the end of _readLoop               *)
(* ------------------------------------------------------------------ *)
\* g_resolved_by of a command whose resolver was called with null
NullOutcome == -1

HostUnchanged ==
    UNCHANGED <<cmdVars, host_quiet, notifyVars, scanVars, pipeVars,
                hostVars, rxVars, byteVars, linkVars, accVars, frameVars>>

\* the pending command is left as it is
Disconnect_KeepsPending ==
    /\ disc_pc = "idle"
    /\ running' = FALSE
    /\ disc_pc' = "cancel"
    /\ UNCHANGED <<respResolve, cmd_state, g_resolved_by>>
    /\ UNCHANGED <<next_cmd, to_dev, to_host, g_overlap, port, reader_pc,
                   g_onDisconnect>>
    /\ HostUnchanged

\* disconnect(), lines 129-139: up to the await of reader.cancel()
Disconnect ==
    /\ disc_pc = "idle"
    /\ running' = FALSE
    /\ IF respResolve # 0
       THEN /\ cmd_state' = [cmd_state EXCEPT ![respResolve] =
                               IF @ = "await" THEN "resolved" ELSE @]
            /\ g_resolved_by' = [g_resolved_by EXCEPT ![respResolve] =
                               IF cmd_state[respResolve] = "await"
                               THEN NullOutcome ELSE @]
            /\ respResolve' = 0
       ELSE UNCHANGED <<respResolve, cmd_state, g_resolved_by>>
    /\ disc_pc' = "cancel"
    /\ UNCHANGED <<next_cmd, to_dev, to_host, g_overlap, port, reader_pc,
                   g_onDisconnect>>
    /\ HostUnchanged

\* lines 258-262, reached when the loops of lines 235-256 have ended
ReadLoopEnd ==
    /\ reader_pc' = "exited"
    /\ running' = FALSE
    /\ g_onDisconnect' = IF running THEN g_onDisconnect + 1
                         ELSE g_onDisconnect

\* reader.cancel() makes the pending read() return done: the inner loop
\* breaks (line 240), the outer loop ends on _running
HostReadCancelled ==
    /\ reader_pc = "read"
    /\ disc_pc = "cancel"
    /\ ReadLoopEnd
    /\ UNCHANGED <<respResolve, next_cmd, cmd_state, g_resolved_by, to_dev,
                   to_host, g_overlap, port, disc_pc>>
    /\ HostUnchanged

\* lines 139-163: the cancel has settled, the locks are released, the
\* port is closed and _port is null
DisconnectReturn ==
    /\ disc_pc = "cancel"
    /\ disc_pc' = "done"
    /\ port' = "closed"
    /\ UNCHANGED <<respResolve, next_cmd, cmd_state, g_resolved_by, to_dev,
                   to_host, g_overlap, running, reader_pc, g_onDisconnect>>
    /\ HostUnchanged

\* the device is unplugged: port.readable and port.writable become null
LinkLost ==
    /\ port = "open"
    /\ port' = "lost"
    /\ UNCHANGED <<respResolve, next_cmd, cmd_state, g_resolved_by, to_dev,
                   to_host, g_overlap, running, reader_pc, disc_pc,
                   g_onDisconnect>>
    /\ HostUnchanged

\* read() fails or returns done on the lost port (lines 239-255), the
\* outer loop ends on port.readable
HostReadLoopExit ==
    /\ reader_pc = "read"
    /\ port = "lost"
    /\ ReadLoopEnd
    /\ UNCHANGED <<respResolve, next_cmd, cmd_state, g_resolved_by, to_dev,
                   to_host, g_overlap, port, disc_pc>>
    /\ HostUnchanged

(* ------------------------------------------------------------------ *)
(* Initial state and specifications                                     *)
(* ------------------------------------------------------------------ *)
Init ==
    /\ scanning = FALSE
    /\ promisc_on = FALSE
    /\ scan_channel = -1
    /\ scan_filter = 0
    /\ wifi_promisc = FALSE
    /\ wifi_filter = 0
    /\ last_rsp = <<>>
    /\ g_preempted = FALSE
    /\ host_quiet = FALSE
    /\ notify_value = 0
    /\ notify_state = "not_waiting"
    /\ scan_pc = "L39"
    /\ ch_idx = 0
    /\ radio_channel = 0
    /\ pool_queue = [i \in Slots |-> i]
    /\ tx_queue = <<>>
    /\ buf_pool = [i \in Slots |-> EmptySlot]
    /\ frame_seq = 0
    /\ prod_pc = "idle"
    /\ prod_buf = 0
    /\ prod_sig_len = 0
    /\ tx_pc = "wait"
    /\ tx_item = [buf |-> 0, len |-> 0]
    /\ wire = <<>>
    /\ frameCount = 0
    /\ dropped = 0
    /\ seqExpect = 0
    /\ firstSeq = TRUE
    /\ g_captured = 0
    /\ g_pool_lost = {}
    /\ g_host_first = 0
    /\ g_host_last = 0
    /\ g_delivered = <<>>
    /\ g_host_in = 0
    /\ rx_pc = "read"
    /\ rx_rsp = <<>>
    /\ usb_out = <<>>
    /\ g_cmds = <<>>
    /\ respResolve = 0
    /\ next_cmd = 0
    /\ cmd_state = [c \in 1..MaxHostCmds |-> "new"]
    /\ g_resolved_by = [c \in 1..MaxHostCmds |-> 0]
    /\ to_dev = <<>>
    /\ to_host = <<>>
    /\ g_overlap = FALSE
    /\ running = TRUE
    /\ port = "open"
    /\ reader_pc = "read"
    /\ disc_pc = "idle"
    /\ g_onDisconnect = 0
    /\ cobs_pc = "idle"
    /\ cobs_src = <<>>
    /\ cobs_wire = <<>>
    /\ cobs_res = [ok |-> TRUE, out |-> <<>>, hi |-> 0]
    /\ g_codec = <<"none", "none">>
    /\ buf = <<>>
    /\ stream = <<>>
    /\ g_sent = <<>>
    /\ g_dispatched = <<>>
    /\ lk_out = <<>>
    /\ lk_free = LinkCap
    /\ accum = <<>>
    /\ g_span = 0
    /\ g_last_span = 0
    /\ g_reads = 0
    /\ g_in = <<>>
    /\ fr_raw = <<>>
    /\ fr_ies = <<>>
    /\ fr_ssid = [null |-> TRUE, text |-> <<>>]
    /\ lk_tx = [pc |-> "idle", len |-> 0]
    /\ lk_rx = "idle"

\* Command dispatcher: every inbound message, from every shared state
Next == RxDispatch(InboundMsgs)

Spec == Init /\ [][Next]_vars

\* Scan state machine: scan commands, the host falling silent, and the
\* scan task.  The scan task is a FreeRTOS task that runs whenever it is
\* ready, and its dwell timeout expires: weak fairness of its steps.
ScanMsgs ==
    {ScanStartMsg(0, 0), ScanStartMsg(6, 0), ScanStartMsg(36, 6),
     ScanStartMsg(14, 0), ScanStopMsg}

NextScan ==
    \/ RxDispatch(ScanMsgs)
    \/ HostQuiet
    \/ scan_task

SpecScan == Init /\ [][NextScan]_vars /\ WF_vars(scan_task)

\* Capture pipeline: scan start/stop commands, capture callback, TX task
\* and the host reading frame events
PipeMsgs == {ScanStartMsg(0, 0), ScanStopMsg}

NextPipe ==
    \/ RxDispatch(PipeMsgs)
    \/ proto_send_frame
    \/ proto_tx_task
    \/ HostReadFrame

SpecPipe == Init /\ [][NextPipe]_vars

\* The pipeline with the host falling silent.  proto_tx_task is the
\* highest-priority task (priority 6, sniffer.c:410-411) and runs whenever
\* it is ready; the capture callback runs to completion once entered.
NextPipeFair ==
    \/ NextPipe
    \/ HostQuiet

SpecPipeFair ==
    /\ Init /\ [][NextPipeFair]_vars
    /\ WF_vars(proto_tx_task)
    /\ WF_vars(ProdEnqueue)

\* RX task alone: each command type, a refused Scan Start, an unknown
\* type, a truncated and a short message, in any order
RxMsgs ==
    {ScanStartMsg(6, 0), ScanStartMsg(14, 0), ScanStopMsg,
     MsgHdr(MSG_CMD_PROMISC_ON, 0, 0), PromiscOffMsg,
     MsgHdr(MSG_CMD_PROMISC_QUERY, 0, 0), MsgHdr(MSG_RSP_ACK, 0, 0),
     MsgHdr(MSG_CMD_SCAN_STOP, 0, 1), <<MSG_CMD_SCAN_START>>}

NextRx ==
    \/ RxHandle(RxMsgs)
    \/ RxSendRaw

SpecRx == Init /\ [][NextRx]_vars

\* Host frame accounting: the client, connected, is fed frame events
NextHostFrames == HostReadLoop

SpecHostFrames == Init /\ [][NextHostFrames]_vars

\* Host commands against the device's command dispatcher
NextHostCmd ==
    \/ HostSendCmd
    \/ DeviceAnswer
    \/ HostReadRsp
    \/ HostFinally
    \/ HostTimeout

SpecHostCmd == Init /\ [][NextHostCmd]_vars

\* Host commands with disconnect() and the loss of the device
NextHostConn ==
    \/ NextHostCmd
    \/ Disconnect
    \/ HostReadCancelled
    \/ DisconnectReturn
    \/ LinkLost
    \/ HostReadLoopExit

SpecHostConn == Init /\ [][NextHostConn]_vars

\* The client reading the bytes of the link while client.stop() is called
NextHostBytes ==
    \/ \E u \in LinkUnits : LinkPut(u)
    \/ HostReadBytes
    \/ HostSendCmdWith(ScanStopMsg)

SpecHostBytes == Init /\ [][NextHostBytes]_vars

\* The COBS codecs of both sides, on encoded messages and on raw spans
NextCodec ==
    \/ CodecEncodeC
    \/ CodecEncodeJs
    \/ CodecRawSpan
    \/ CodecDecodeC
    \/ CodecDecodeJs

SpecCodec == Init /\ [][NextCodec]_vars

(* ================================================================== *)
(* Claims                                                               *)
(* ================================================================== *)
Bytes == 0..255

\* the documented channel set: 1-13, and the 5 GHz channels
DocumentedChannels == (1..13) \cup {36, 40, 44, 48, 149, 153, 157, 161, 165}

\* filter bytes tried with every channel byte, and channel bytes tried
\* with every filter byte
ProbeFilters == {0, 1, 7, 8, 128, 255}
ProbeChannels == {0, 1, 13, 14, 36, 165, 166, 255}
ScanStartProbes ==
    (Bytes \X ProbeFilters) \cup (ProbeChannels \X Bytes)

AckBytes(cmd_type) == <<MSG_RSP_ACK, FLAG_ACK, 1, 0, cmd_type>>
ErrorBytes(cmd_type, code) == <<MSG_RSP_ERROR, FLAG_ERR, 2, 0, cmd_type, code>>

(* ------------------------------------------------------------------ *)
\* C1: every buffer slot is in exactly one place (the free pool, the
\* producer between acquire and enqueue, the transmit queue, or the TX
\* task between dequeue and release); no slot is present twice and the
\* four counts sum to BUF_POOL_SIZE.
Occurrences(seq, x) == Cardinality({i \in 1..Len(seq) : seq[i] = x})
TxQueueSlots == [i \in 1..Len(tx_queue) |-> tx_queue[i].buf]
ProducerHolds(slot) == IF prod_pc = "fill" /\ prod_buf = slot THEN 1 ELSE 0
TxTaskHolds(slot) ==
    IF tx_pc \in {"write", "release"} /\ tx_item.buf = slot THEN 1 ELSE 0
PlacesOf(slot) ==
    Occurrences(pool_queue, slot) + ProducerHolds(slot)
    + Occurrences(TxQueueSlots, slot) + TxTaskHolds(slot)

C1_SlotInExactlyOnePlace ==
    /\ \A slot \in Slots : PlacesOf(slot) = 1
    /\ Len(pool_queue) + (IF prod_pc = "fill" THEN 1 ELSE 0)
       + Len(tx_queue) + (IF tx_pc \in {"write", "release"} THEN 1 ELSE 0)
       = BUF_POOL_SIZE
    /\ \A i \in 1..Len(pool_queue) : pool_queue[i] \in Slots
    /\ \A i \in 1..Len(tx_queue) : tx_queue[i].buf \in Slots

\* all four places are occupied at once, after slots have been recycled
C1_Witness ==
    /\ pool_queue # <<>>
    /\ prod_pc = "fill"
    /\ tx_queue # <<>>
    /\ tx_pc = "release"
    /\ frame_seq > BUF_POOL_SIZE

(* ------------------------------------------------------------------ *)
\* C2: a frame dropped because the free pool is empty shows up at the
\* host as a sequence gap: the host's dropped estimate is at least the
\* number of frames lost to pool exhaustion between the first and the
\* last frame it received.
PoolLostBetween(first, last) ==
    Cardinality({k \in g_pool_lost : first < k /\ k < last})

C2_PoolDropIsSequenceGap ==
    dropped >= PoolLostBetween(g_host_first, g_host_last)

(* ------------------------------------------------------------------ *)
\* C3: once a Scan Start with a valid channel c > 0 has been acked and
\* no further command arrives, the scan task eventually tunes the radio
\* to c and stays there.
LastAckedScanStart ==
    /\ host_quiet
    /\ last_rsp = AckBytes(MSG_CMD_SCAN_START)

C3_SingleChannelEventuallyTuned ==
    [](LastAckedScanStart /\ scan_channel > 0
         => <>[](radio_channel = scan_channel))

(* ------------------------------------------------------------------ *)
\* C4: once a Scan Start with channel 0 (all) has been acked and no
\* further command arrives, the scan task enters the all-channel cycle
\* and every channel of the table is eventually tuned.
C4_AllChannelsEventuallyTuned ==
    [](LastAckedScanStart /\ scan_channel = -1
         => \A i \in 1..num_channels : <>(radio_channel = channels[i]))

(* ------------------------------------------------------------------ *)
\* C5: after any sequence of commands, scanning implies promiscuous.
C5_ScanningImpliesPromiscuous == scanning => promisc_on

\* a scan is active and the promiscuous query has just reported "on"
C5_Witness ==
    /\ scanning
    /\ promisc_on
    /\ last_rsp = <<MSG_RSP_PROMISC_STATUS, FLAG_ACK, 1, 0, 1>>

(* ------------------------------------------------------------------ *)
\* C6: a Scan Start whose channel is neither 0 nor a valid channel is
\* answered Error InvalidChannel; one with an acceptable channel and a
\* filter bit outside 0x07 is answered Error InvalidFilter; both leave
\* the shared state as it is and do not signal the scan task.
C6_InvalidScanStartRejected ==
    \A p \in ScanStartProbes :
        LET ch == p[1]
            filt == p[2]
            chOk == ch = 0 \/ ch \in DocumentedChannels
            o == handle_command(Shared, ScanStartMsg(ch, filt))
        IN  /\ ~chOk =>
                 o = Outcome(Shared, NoNotify,
                       ErrorBytes(MSG_CMD_SCAN_START, ERR_INVALID_CHANNEL))
            /\ chOk /\ filt >= 8 =>
                 o = Outcome(Shared, NoNotify,
                       ErrorBytes(MSG_CMD_SCAN_START, ERR_INVALID_FILTER))

\* an invalid filter was refused while a scan on channel 36 was running
C6_Witness ==
    /\ last_rsp = ErrorBytes(MSG_CMD_SCAN_START, ERR_INVALID_FILTER)
    /\ scanning
    /\ scan_channel = 36
    /\ scan_filter = 6

(* ------------------------------------------------------------------ *)
\* C7: a Scan Start with a valid channel and filter succeeds from every
\* state, also while scanning: afterwards scanning and promiscuous are
\* true, channel (0 kept as the all-channels value -1) and filter hold
\* the request, one start signal (value 1) is posted, the reply is Ack
\* of command 0x01.
C7_ValidScanStartSucceeds ==
    \A ch \in {0} \cup DocumentedChannels, filt \in 0..7 :
        LET o == handle_command(Shared, ScanStartMsg(ch, filt))
        IN  /\ o.state.scanning
            /\ o.state.promisc_on
            /\ o.state.scan_channel = (IF ch = 0 THEN -1 ELSE ch)
            /\ o.state.scan_filter = filt
            /\ o.notify = 1
            /\ o.rsp = AckBytes(1)

\* a second Scan Start has been acked, its signal is pending
C7_Witness ==
    /\ last_rsp = AckBytes(1)
    /\ scanning /\ promisc_on
    /\ scan_channel = 36 /\ scan_filter = 6
    /\ notify_value = 1 /\ notify_state = "received"

(* ------------------------------------------------------------------ *)
\* C8: the Scan Start the client library sends, a payload of one valid
\* channel byte, is answered Ack and starts scanning on that channel.
C8_DocumentedScanStartAcked ==
    \A ch \in DocumentedChannels :
        LET o == handle_command(Shared, ClientScanMsg(ch))
        IN  /\ o.rsp = AckBytes(MSG_CMD_SCAN_START)
            /\ o.state.scanning
            /\ o.state.scan_channel = ch

(* ------------------------------------------------------------------ *)
\* C9: Scan Stop sets scanning to false, leaves the rest of the shared
\* state, signals the scan task (value 0) and replies Ack; a second Scan
\* Stop leaves the same shared state and is acked again.
C9_ScanStopIdempotent ==
    LET o1 == handle_command(Shared, ScanStopMsg)
        o2 == handle_command(o1.state, ScanStopMsg)
    IN  /\ o1.state = [Shared EXCEPT !.scanning = FALSE]
        /\ o1.notify = 0
        /\ o1.rsp = AckBytes(MSG_CMD_SCAN_STOP)
        /\ o2.state = o1.state
        /\ o2.notify = 0
        /\ o2.rsp = AckBytes(MSG_CMD_SCAN_STOP)

\* a scan on channel 6 has been stopped, promiscuous mode is still on
C9_Witness ==
    /\ last_rsp = AckBytes(MSG_CMD_SCAN_STOP)
    /\ ~scanning /\ promisc_on
    /\ scan_channel = 6
    /\ notify_value = 0 /\ notify_state = "received"

(* ------------------------------------------------------------------ *)
\* C10: Promiscuous Off while scanning is answered Error ScanActive and
\* changes nothing (promiscuous stays true); while not scanning it sets
\* promiscuous to false and is answered Ack.
C10_PromiscOffGuarded ==
    LET o == handle_command(Shared, PromiscOffMsg)
    IN  IF scanning
        THEN /\ o = Outcome(Shared, NoNotify,
                      ErrorBytes(MSG_CMD_PROMISC_OFF, ERR_SCAN_ACTIVE))
             /\ o.state.promisc_on
        ELSE /\ o.state = [Shared EXCEPT !.promisc_on = FALSE,
                                         !.wifi_promisc = FALSE]
             /\ o.notify = NoNotify
             /\ o.rsp = AckBytes(MSG_CMD_PROMISC_OFF)

\* Promiscuous Off has just been refused during a scan
C10_Witness ==
    /\ last_rsp = ErrorBytes(MSG_CMD_PROMISC_OFF, ERR_SCAN_ACTIVE)
    /\ scanning /\ promisc_on

(* ------------------------------------------------------------------ *)
\* C11: every complete inbound message whose msg_type is none of the five
\* command values (response and event values included) is answered with
\* Error(msg_type, UnknownCommand), and scanning, promiscuous mode, the
\* channel and the filter stay as they were; the scan task is not notified.
CommandTypes ==
    {MSG_CMD_SCAN_START, MSG_CMD_SCAN_STOP, MSG_CMD_PROMISC_ON,
     MSG_CMD_PROMISC_OFF, MSG_CMD_PROMISC_QUERY}

C11_UnknownTypeAnswered ==
    \A t \in Bytes \ CommandTypes :
      \A p \in {<<>>, <<6>>, <<6, 0>>} :
        \A flags \in {0, FLAG_ERR, FLAG_ACK} :
          handle_command(Shared, MsgHdr(t, flags, Len(p)) \o p)
            = Outcome(Shared, NoNotify, ErrorBytes(t, ERR_UNKNOWN_CMD))

\* an Ack-typed message was answered with UnknownCommand while a
\* single-channel scan was on, and the scan state is still in place
C11_Witness ==
    /\ last_rsp = ErrorBytes(MSG_RSP_ACK, ERR_UNKNOWN_CMD)
    /\ scanning /\ promisc_on
    /\ scan_channel = 6
    /\ scan_filter = 6

(* ------------------------------------------------------------------ *)
\* C12: every inbound message that is a complete command gets exactly one
\* response (Ack, Error or PromiscStatus); the response is on the link
\* before the next inbound message is dispatched; the responses leave in
\* the order the commands arrived.
RespondsTo(rsp, cmd_type) ==
    \/ rsp = AckBytes(cmd_type)
    \/ \E code \in {ERR_UNKNOWN_CMD, ERR_INVALID_CHANNEL, ERR_WIFI_FAIL,
                    ERR_SCAN_ACTIVE, ERR_INVALID_FILTER} :
         rsp = ErrorBytes(cmd_type, code)
    \/ /\ cmd_type = MSG_CMD_PROMISC_QUERY
       /\ rsp \in {<<MSG_RSP_PROMISC_STATUS, FLAG_ACK, 1, 0, b>> : b \in {0, 1}}

CaptureStopped == host_quiet /\ ~scanning

PoolComplete ==
    /\ Len(pool_queue) = BUF_POOL_SIZE
    /\ {pool_queue[i] : i \in 1..Len(pool_queue)} = Slots

C13_SlotsReleasedExactlyOnce ==
    /\ [](\A slot \in Slots : Occurrences(pool_queue, slot) <= 1)
    /\ (CaptureStopped ~> []PoolComplete)

\* capture has stopped after more frames than there are slots were
\* enqueued (slots were released and acquired again), and the pool is
\* complete
C13_Witness ==
    /\ CaptureStopped
    /\ frame_seq > BUF_POOL_SIZE
    /\ PoolComplete

(* ------------------------------------------------------------------ *)
\* C14: proto_send_frame never blocks: the callback can always take its
\* next step.  Called while scanning is off, or with a frame longer than
\* MAX_FRAME_LEN, it leaves the free pool, the transmit queue and the
\* sequence counter unchanged; called with the free pool empty it
\* returns at once and enqueues nothing.
C14_CallbackCanStep ==
    /\ (prod_pc = "idle" /\ g_captured < MaxFrames)
         => \A sig_len \in SigLens : ENABLED ProdAcquireWith(sig_len)
    /\ prod_pc = "fill" => ENABLED ProdEnqueue

C14_SendFrameDropsWithoutEffect ==
    /\ []C14_CallbackCanStep
    /\ [][\A sig_len \in SigLens :
            ProdAcquireWith(sig_len) =>
              /\ (~scanning \/ sig_len > MAX_FRAME_LEN)
                   => UNCHANGED <<pool_queue, tx_queue, frame_seq>>
              /\ pool_queue = <<>>
                   => /\ UNCHANGED <<pool_queue, tx_queue, frame_seq>>
                      /\ prod_pc' = "idle"]_vars

\* a callback found the pool empty and returned, and scanning has been
\* switched off since, with the callback idle
C14_Witness ==
    /\ g_pool_lost # {}
    /\ ~scanning
    /\ prod_pc = "idle"

(* ------------------------------------------------------------------ *)
\* C15: host drop accounting.  For every accepted frame: the frame is
\* delivered; the first frame after connect counts no gap; for a later
\* frame gap = (seq_num - expected) mod 65536 is added to dropped if and
\* only if gap < 32768; in every case expected becomes
\* (seq_num + 1) mod 65536.  Frames 0, 1, 2, 4 are delivered in that order
\* and leave dropped = 1.
C15_DropAccounting ==
    /\ [][\A msg \in HostFrameMsgs :
            (HostRecv(msg) /\ FrameAccepted(msg)) =>
              LET gap == (msg.seq_num - seqExpect) % 65536
              IN  /\ g_delivered' = Append(g_delivered, msg.seq_num)
                  /\ frameCount' = frameCount + 1
                  /\ dropped' = IF ~firstSeq /\ gap < 32768
                                THEN dropped + gap ELSE dropped
                  /\ seqExpect' = (msg.seq_num + 1) % 65536]_vars
    /\ [](g_delivered = <<0, 1, 2, 4>> => dropped = 1 /\ frameCount = 4)

\* frames 0, 1, 2, 4 have been delivered since connect
C15_Witness ==
    /\ g_delivered = <<0, 1, 2, 4>>
    /\ dropped = 1
    /\ seqExpect = 5

(* ------------------------------------------------------------------ *)
\* C16 as claimed: with expected = 65535, a frame with seq_num = 1
\* increases dropped by exactly 1.
C16_WrapGapIsOne ==
    [][\A msg \in HostFrameMsgs :
         (HostRecv(msg) /\ FrameAccepted(msg) /\ ~firstSeq
            /\ seqExpect = 65535 /\ msg.seq_num = 1)
           => dropped' = dropped + 1]_vars

\* C16, amended: with expected = 65535, a frame with seq_num = 1 is a
\* forward gap of (1 - 65535) mod 65536 = 2 across the wraparound (frames
\* 65535 and 0 are missing): dropped increases by exactly 2.
C16_WrapGapIsTwo ==
    [][\A msg \in HostFrameMsgs :
         (HostRecv(msg) /\ FrameAccepted(msg) /\ ~firstSeq
            /\ seqExpect = 65535 /\ msg.seq_num = 1)
           => dropped' = dropped + 2]_vars

\* frame 65534 set expected to 65535, then frame 1 was received
C16_Witness ==
    /\ g_delivered = <<65534, 1>>
    /\ seqExpect = 2
    /\ dropped = 2

(* ------------------------------------------------------------------ *)
\* C17: a Frame event whose frame_len exceeds the raw bytes present
\* after the 16-byte metadata, or whose payload is shorter than the
\* metadata, is rejected: the frame callback is not called, and
\* frameCount, dropped and the sequence tracker are unchanged.
FrameIsShort(msg) ==
    \/ PayloadPresent(msg) < 16
    \/ msg.frame_len > PayloadPresent(msg) - 16

C17_ShortFrameRejected ==
    [][\A msg \in HostFrameMsgs :
         (HostRecv(msg) /\ FrameIsShort(msg))
           => UNCHANGED <<g_delivered, frameCount, dropped, seqExpect,
                          firstSeq>>]_vars

\* two frames were delivered and two more messages, short ones, were
\* looked at
C17_Witness ==
    /\ frameCount = 2
    /\ Len(g_delivered) = 2
    /\ g_host_in = 4

(* ------------------------------------------------------------------ *)
\* C18: on the host each decoded Ack, Error or PromiscStatus resolves at
\* most one pending command: if a command is pending it is resolved with
\* that message and the pending slot is cleared; if none is pending the
\* message is discarded and no client state changes.
C18_ResponseResolvesOnePending ==
    [][(to_host # <<>> /\ HostReadRsp /\ IsResponse(Head(to_host))) =>
         IF respResolve # 0
         THEN /\ cmd_state' = [cmd_state EXCEPT ![respResolve] = "resolved"]
              /\ g_resolved_by' = [g_resolved_by EXCEPT
                                     ![respResolve] = Head(to_host).g_for]
              /\ respResolve' = 0
         ELSE UNCHANGED <<respResolve, cmd_state, g_resolved_by, next_cmd,
                          frameCount, dropped, seqExpect, firstSeq,
                          g_delivered>>]_vars

\* the first command timed out and its response, read later with nothing
\* pending, was discarded; the second command was resolved by its own
\* response and has returned
C18_Witness ==
    /\ next_cmd = 2
    /\ cmd_state[1] = "timeout" /\ g_resolved_by[1] = 0
    /\ cmd_state[2] = "done" /\ g_resolved_by[2] = 2
    /\ g_host_in = 2
    /\ respResolve = 0

(* ------------------------------------------------------------------ *)
\* C19: a second command issued while the first awaits its response is
\* rejected or queued: the resolver of an awaiting command leaves the
\* pending slot only when that command's own response or own timeout
\* arrives, and (no command having timed out) every command that got a
\* response got its own.
C19_SecondCommandKeepsFirstResolver ==
    /\ [][\A c \in HostCmdIds :
            (cmd_state[c] = "await" /\ respResolve = c
               /\ respResolve' # c)
              => cmd_state'[c] \in {"resolved", "timeout"}]_vars
    /\ []((\A k \in HostCmdIds : cmd_state[k] # "timeout") =>
            \A c \in HostCmdIds :
              cmd_state[c] \in {"resolved", "done"} => g_resolved_by[c] = c)

(* ------------------------------------------------------------------ *)
\* C20: when commands are issued strictly one at a time, every command
\* that resolves with a response resolves with the response the device
\* produced for that same command, also after an earlier command timed
\* out and was answered late.
C20_OneAtATimeGetsOwnResponse ==
    ~g_overlap =>
      \A c \in HostCmdIds :
        cmd_state[c] \in {"resolved", "done"} => g_resolved_by[c] = c

C22_UnexpectedDisconnectFailsPending ==
    /\ [][(reader_pc = "read" /\ reader_pc' = "exited" /\ disc_pc = "idle")
            => /\ g_onDisconnect' = g_onDisconnect + 1
               /\ \A c \in HostCmdIds : cmd_state'[c] # "await"]_vars
    /\ [](g_onDisconnect <= 1)

(* ------------------------------------------------------------------ *)
\* C23: COBS round trip.  For every message x (the empty one, all-zero
\* ones and runs of 254 and 255 non-zero bytes included) the encoding
\* contains no zero byte and decodes to x; for the C codec, for the
\* TypeScript codec, and with one side encoding and the other decoding.
NoZeroByte(bytes) == \A k \in 1..Len(bytes) : bytes[k] # 0

C23_CobsRoundTrip ==
    /\ (cobs_pc # "idle" /\ g_codec[1] \in {"c", "js"})
         => NoZeroByte(cobs_wire)
    /\ (cobs_pc = "done" /\ g_codec[1] \in {"c", "js"})
         => cobs_res.ok /\ cobs_res.out = cobs_src

\* the C encoder's span for 254 non-zero bytes followed by a zero and 254
\* more has been decoded by the TypeScript decoder
C23_Witness ==
    /\ cobs_pc = "done"
    /\ g_codec = <<"c", "js">>
    /\ cobs_src = Run(254) \o <<0>> \o Run(254)
    /\ cobs_res.out = cobs_src

(* ------------------------------------------------------------------ *)
\* C24: decoding fails and yields no message whenever a code byte is zero
\* or a code byte announces more literal bytes than remain in the input;
\* the decoder never reads past the end of the input.  The code bytes are
\* the first byte and each byte that follows a block.
RECURSIVE SpanMalformed(_, _)
SpanMalformed(span, p) ==
    /\ p <= Len(span)
    /\ \/ span[p] = 0
       \/ p + span[p] - 1 > Len(span)
       \/ SpanMalformed(span, p + span[p])

C24_CobsDecodeFails ==
    cobs_pc = "done" =>
      /\ SpanMalformed(cobs_wire, 1) => ~cobs_res.ok /\ cobs_res.out = <<>>
      /\ cobs_res.hi <= Len(cobs_wire)

\* a span whose code byte 3 is followed by one byte only has been
\* refused by the C decoder
C24_Witness ==
    /\ cobs_pc = "done"
    /\ g_codec = <<"raw", "c">>
    /\ cobs_wire = <<3, 1>>
    /\ ~cobs_res.ok

\* C25: a read whose spans are all discarded (empty, undecodable, or
\* decoding to fewer than 4 bytes) leaves frameCount, dropped, the
\* sequence tracker and the pending command as they were, and once the
\* link has been read to its end every well-formed message written to
\* it has been dispatched, in order, whatever was discarded in between.
GoodMsgs(units) ==
    LET good == SelectSeq(units, LAMBDA u : u.good)
    IN  [k \in 1..Len(good) |-> good[k].msg]

C25_BadSpansDiscarded ==
    /\ [](stream = <<>> => g_dispatched = GoodMsgs(g_sent))
    /\ [][\A n \in ChunkSizes :
            HostReadChunk(n) /\ g_dispatched' = g_dispatched
              => UNCHANGED <<frameCount, dropped, seqExpect, firstSeq,
                             respResolve, cmd_state>>]_vars

\* an undecodable span was read while a command was pending, and the
\* frame event after it was dispatched
C25_Witness ==
    /\ stream = <<>>
    /\ Len(g_sent) = 3
    /\ g_sent[1].good /\ g_sent[1].msg[1] = MSG_EVT_FRAME
    /\ g_sent[2].bytes = <<0, 3, 1, 0>>
    /\ g_sent[3].good /\ g_sent[3].msg[1] = MSG_EVT_FRAME
    /\ frameCount = 2
    /\ respResolve # 0

(* ------------------------------------------------------------------ *)
\* C26: once a Scan Stop has been processed and no Scan Start follows
\* it, the scan task eventually blocks in the take of line 39 and stays
\* there, whichever mode it was in and wherever the stop signal found it.
StoppedForGood == host_quiet /\ ~scanning

C26_StopLeadsToIdle ==
    [](StoppedForGood => <>[](scan_pc = "L39w"))

\* the task is blocked in Idle after a scan that had tuned the radio was
\* stopped
C26_Witness ==
    /\ StoppedForGood
    /\ last_rsp = AckBytes(MSG_CMD_SCAN_STOP)
    /\ radio_channel # 0
    /\ scan_pc = "L39w"

\* a stop signal has overwritten a start signal the task never consumed
C26_StopOverwroteStart ==
    /\ StoppedForGood
    /\ last_rsp = AckBytes(MSG_CMD_SCAN_STOP)
    /\ scan_channel = 6
    /\ radio_channel = 0
    /\ scan_pc = "L39"
    /\ notify_state = "received"

(* ------------------------------------------------------------------ *)
\* C27: in all-channel mode every tune takes the first table entry when
\* the task has just (re)started or has wrapped, and otherwise the entry
\* after the one tuned before; and while the task is in the cycle with
\* scanning true and no signal pending or arriving, every channel of the
\* table is tuned again and again.
InAllChannelLoop == scan_pc \in {"L62", "L63", "L67", "L67w"}

NoSignal == host_quiet /\ notify_value = 0 /\ notify_state # "received"

TableSuccessor(ch, next) ==
    \E i \in 1..(num_channels - 1) : ch = channels[i] /\ next = channels[i + 1]

C27_TunesInTableOrder ==
    [][scan_pc = "L63" /\ scan_pc' # "L63"
         => IF ch_idx = 0
            THEN radio_channel' = channels[1]
            ELSE TableSuccessor(radio_channel, radio_channel')]_vars

C27_CyclesForever ==
    [](InAllChannelLoop /\ scanning /\ NoSignal
         => \A i \in 1..num_channels : []<>(radio_channel = channels[i]))

C27_AllChannelCycle == C27_TunesInTableOrder /\ C27_CyclesForever

\* the task has tuned the last entry of the table, the index has wrapped
\* to the first, and it is dwelling with no signal to come
C27_Witness ==
    /\ scanning /\ NoSignal
    /\ scan_pc = "L67w"
    /\ radio_channel = channels[num_channels]
    /\ ch_idx = 0

(* ------------------------------------------------------------------ *)
\* C28: Promiscuous On sets promiscuous to true and is acked whether or
\* not it was on, and a second one leaves the state of the first;
\* Promiscuous Query replies the status with the current value and
\* changes nothing; neither changes scanning, the channel or the filter,
\* nor signals the scan task.
PromiscOnMsg == MsgHdr(MSG_CMD_PROMISC_ON, 0, 0)
StatusBytes(enabled) ==
    <<MSG_RSP_PROMISC_STATUS, FLAG_ACK, 1, 0, IF enabled THEN 1 ELSE 0>>

C28_PromiscOnAndQuery ==
    LET o1 == handle_command(Shared, PromiscOnMsg)
        o2 == handle_command(o1.state, PromiscOnMsg)
        q == handle_command(Shared, PromiscQueryMsg)
    IN  /\ o1.state.promisc_on /\ o1.state.wifi_promisc
        /\ o1.rsp = AckBytes(MSG_CMD_PROMISC_ON)
        /\ o1.notify = NoNotify
        /\ o1.state.scanning = scanning
        /\ o1.state.scan_channel = scan_channel
        /\ o1.state.scan_filter = scan_filter
        /\ o2.state = o1.state
        /\ o2.rsp = AckBytes(MSG_CMD_PROMISC_ON)
        /\ o2.notify = NoNotify
        /\ q.state = Shared
        /\ q.rsp = StatusBytes(promisc_on)
        /\ q.notify = NoNotify

\* Promiscuous On has been acked during a scan on channel 36 with the
\* management-and-data filter: capture was on already
C28_Witness ==
    /\ last_rsp = AckBytes(MSG_CMD_PROMISC_ON)
    /\ scanning /\ promisc_on /\ wifi_promisc
    /\ scan_channel = 36
    /\ scan_filter = 6

(* ------------------------------------------------------------------ *)
\* C29: the sequence numbers of the frame events the host has received,
\* those on the link, the one being written and those queued for the TX
\* task are, in that order, increasing, so frames reach the wire in the
\* order the capture callback accepted them; every accepted frame takes
\* the counter's value and moves it on by one, from 0 and from 65535
\* back to 0.
SeqNumsOf(msgs) == [k \in 1..Len(msgs) |-> msgs[k].seq_num]

FramesInFlight ==
    g_delivered
      \o SeqNumsOf(wire)
      \o (IF tx_pc = "write" THEN <<buf_pool[tx_item.buf].seq_num>>
          ELSE <<>>)
      \o [k \in 1..Len(tx_queue) |-> buf_pool[tx_queue[k].buf].seq_num]

AcceptedFrames ==
    Cardinality((1..g_captured) \ g_pool_lost)
      - (IF prod_pc = "fill" THEN 1 ELSE 0)

C29_InOrder ==
    /\ \A i, j \in 1..Len(FramesInFlight) :
         i < j => FramesInFlight[i] < FramesInFlight[j]
    /\ frame_seq = AcceptedFrames % U16
    /\ NextSeq(U16 - 2) = U16 - 1
    /\ NextSeq(U16 - 1) = 0

C29_TakesNextSeq ==
    [][/\ prod_pc = "fill" /\ prod_pc' = "idle"
         => /\ buf_pool'[prod_buf].seq_num = frame_seq
            /\ frame_seq' = IF frame_seq = U16 - 1 THEN 0
                            ELSE frame_seq + 1
       /\ frame_seq' # frame_seq => prod_pc = "fill"]_vars

C30_QueuesNeverFull ==
    /\ prod_pc = "fill" => QueueHasRoom(tx_queue) /\ QueueHasRoom(pool_queue)
    /\ tx_pc = "release" => QueueHasRoom(pool_queue)

\* the tightest case: seven slots queued for the TX task and the eighth
\* in the callback's hands, after slots have been recycled
C30_Witness ==
    /\ prod_pc = "fill"
    /\ Len(tx_queue) = BUF_POOL_SIZE - 1
    /\ frame_seq > BUF_POOL_SIZE

\* the TX task is about to release the one slot missing from the pool
C30_PoolAlmostFull ==
    /\ tx_pc = "release"
    /\ Len(pool_queue) = BUF_POOL_SIZE - 1
    /\ frame_seq > 0

(* ------------------------------------------------------------------ *)
\* C31: the scan task calls the radio's tune function only while
\* scanning is true, and it leaves the take of line 39 only on a start
\* signal (a notification of value 1).
TuneStep ==
    /\ scan_pc \in {"L45", "L53", "L63"}
    /\ scan_pc' # scan_pc

LeavesIdle ==
    /\ scan_pc \in {"L39", "L39w"}
    /\ scan_pc' = "L41"

C31_TunesOnlyWhileScanning ==
    [][/\ TuneStep => scanning
       /\ LeavesIdle => notify_value = 1]_vars

(* ------------------------------------------------------------------ *)
\* C32: every value the scan task passes to the radio's tune call is a
\* member of the channel table.  (As stated, for every interleaving of
\* handle_command with the scan task; as it holds, for the runs in which
\* handle_command ran only while the scan task was blocked.)
ChannelTable == {valid_channels[i] : i \in 1..num_valid_channels}

RspEncLen == Len(cobs_encode(AckBytes(MSG_CMD_SCAN_STOP)))
\* encoded lengths of a short frame, of one filling a whole pool slot, and
\* of one that leaves less room than a response body behind the latter
BigEncLen == BUF_SLOT_SIZE + 1
FrameEncLens == {Len(cobs_encode(FrameBytes(0))), BigEncLen,
                 LinkCap - BigEncLen - 7}
MaxPieces == 12
NextPc(pc) == CASE pc = "d1" -> "body" [] pc = "body" -> "d2"
                [] OTHER -> "idle"
TxPieceLen == IF lk_tx.pc = "body" THEN lk_tx.len ELSE 1
RxPieceLen == IF lk_rx = "body" THEN RspEncLen ELSE 1
\* the TX task is ready to run: it has a write to make and the write fits
TxRunnable == lk_tx.pc # "idle" /\ TxPieceLen <= lk_free
LinkUnchanged ==
    UNCHANGED <<cmdVars, host_quiet, notifyVars, scanVars, pipeVars,
                hostVars, rxVars, respResolve, next_cmd, cmd_state,
                g_resolved_by, to_dev, to_host, g_overlap, connVars,
                byteVars, accVars, frameVars>>
\* xQueueReceive returns an item (sniffer.c:248); its encoded length is
\* fixed by cobs_encode at line 251
LkFrameQueued(len) ==
    /\ lk_tx.pc = "idle"
    /\ Len(lk_out) + 3 <= MaxPieces
    /\ lk_tx' = [pc |-> "d1", len |-> len]
    /\ UNCHANGED <<lk_out, lk_free, lk_rx>>
    /\ LinkUnchanged
\* one of the three writes at sniffer.c:253-255 finds room
LkTxWrite ==
    /\ TxRunnable
    /\ lk_out' = Append(lk_out, IF lk_tx.pc = "body" THEN "F" ELSE "0")
    /\ lk_free' = lk_free - TxPieceLen
    /\ lk_tx' = [lk_tx EXCEPT !.pc = NextPc(lk_tx.pc)]
    /\ UNCHANGED lk_rx
    /\ LinkUnchanged
\* one of them finds no room until its timeout; the task goes on
LkTxTimeout ==
    /\ lk_tx.pc # "idle"
    /\ TxPieceLen > lk_free
    /\ lk_tx' = [lk_tx EXCEPT !.pc = NextPc(lk_tx.pc)]
    /\ UNCHANGED <<lk_out, lk_free, lk_rx>>
    /\ LinkUnchanged
\* the RX task runs only while the TX task is blocked or has no item
\* (priorities at sniffer.c:414-415); a handler calls send_raw
LkCmd ==
    /\ ~TxRunnable
    /\ lk_rx = "idle"
    /\ Len(lk_out) + 3 <= MaxPieces
    /\ lk_rx' = "d1"
    /\ UNCHANGED <<lk_out, lk_free, lk_tx>>
    /\ LinkUnchanged
\* one of the three writes at sniffer.c:151-153 finds room
LkRxWrite ==
    /\ ~TxRunnable
    /\ lk_rx # "idle"
    /\ RxPieceLen <= lk_free
    /\ lk_out' = Append(lk_out, IF lk_rx = "body" THEN "R" ELSE "0")
    /\ lk_free' = lk_free - RxPieceLen
    /\ lk_rx' = NextPc(lk_rx)
    /\ UNCHANGED lk_tx
    /\ LinkUnchanged
LkRxTimeout ==
    /\ ~TxRunnable
    /\ lk_rx # "idle"
    /\ RxPieceLen > lk_free
    /\ lk_rx' = NextPc(lk_rx)
    /\ UNCHANGED <<lk_out, lk_free, lk_tx>>
    /\ LinkUnchanged
\* the host takes what the buffer holds; a blocked writer can go on
LkDrain ==
    /\ lk_free < LinkCap
    /\ lk_free' = LinkCap
    /\ UNCHANGED <<lk_out, lk_tx, lk_rx>>
    /\ LinkUnchanged
NextWire ==
    \/ \E len \in FrameEncLens : LkFrameQueued(len)
    \/ LkTxWrite
    \/ LkTxTimeout
    \/ LkCmd
    \/ LkRxWrite
    \/ LkRxTimeout
    \/ LkDrain
SpecWire == Init /\ [][NextWire]_vars

\* C33: on the device-to-host wire every non-empty span between two
\* delimiters is one whole encoded message: no two message bodies (a
\* response body and a frame body in particular) lie next to each other
\* without a 0x00 between them.
C33_SpansAreWholeMessages ==
    \A i \in 1..(Len(lk_out) - 1) : lk_out[i] = "0" \/ lk_out[i + 1] = "0"
\* a response body directly followed by a frame body
C33_ResponseThenFrame ==
    \E i \in 1..(Len(lk_out) - 1) : lk_out[i] = "R" /\ lk_out[i + 1] = "F"


\* ---------------------------------------------------------------------
\* proto_rx_task byte by byte (sniffer.c:357-390).  One step is one
\* usb_serial_jtag_read_bytes with the loop over what it returned; the
\* reads offered carry a delimiter as their last byte only, so that a
\* read dispatches at most one command.
\* ---------------------------------------------------------------------
RX_BUF_SIZE == 64
RX_ACCUM_SIZE == 128
MaxReads == 4
\* lines 380-386: a non-delimiter byte is stored, or, the accumulator
\* being full, empties it
AccumByte(acc, b) ==
    IF Len(acc) < RX_ACCUM_SIZE THEN Append(acc, b) ELSE <<>>
\* the loop of line 371 over bytes, none of them a delimiter: the bytes
\* are stored while there is room; the first byte that finds the
\* accumulator full empties it and the loop goes on with the byte after
RECURSIVE AccumBytes(_, _)
AccumBytes(acc, bytes) ==
    LET room == RX_ACCUM_SIZE - Len(acc)
    IN  IF Len(bytes) <= room THEN acc \o bytes
        ELSE AccumBytes(AccumByte(acc \o SubSeq(bytes, 1, room),
                                  bytes[room + 1]),
                        SubSeq(bytes, room + 2, Len(bytes)))
EncodedStop == cobs_encode(ScanStopMsg)
RxChunks ==
    {<<0>>, <<7>>, Run(RX_BUF_SIZE), EncodedStop, EncodedStop \o <<0>>,
     SubSeq(EncodedStop, 1, 2) \o <<0>>}
\* handle_command on a decoded message, up to its call of proto_send_*
RxHandleData(data) ==
    LET o == handle_command(Shared, data)
    IN  /\ scanning' = o.state.scanning
        /\ promisc_on' = o.state.promisc_on
        /\ scan_channel' = o.state.scan_channel
        /\ scan_filter' = o.state.scan_filter
        /\ wifi_promisc' = o.state.wifi_promisc
        /\ wifi_filter' = o.state.wifi_filter
        /\ RunsBesideScanTask
        /\ IF o.notify = NoNotify
           THEN UNCHANGED notifyVars
           ELSE xTaskNotify(o.notify)
        /\ IF o.rsp = <<>>
           THEN UNCHANGED <<rx_pc, rx_rsp>>
           ELSE rx_pc' = "send" /\ rx_rsp' = o.rsp
        /\ g_cmds' = IF IsComplete(data) THEN Append(g_cmds, data[1])
                     ELSE g_cmds
        /\ UNCHANGED <<last_rsp, usb_out>>
RxRead(chunk) ==
    /\ rx_pc = "read"
    /\ Len(g_cmds) < MaxCmds
    /\ g_reads < MaxReads
    /\ LET delim == chunk[Len(chunk)] = 0
           bytes == IF delim THEN SubSeq(chunk, 1, Len(chunk) - 1)
                    ELSE chunk
           acc == AccumBytes(accum, bytes)
           dec == cobs_decode(acc)
       IN  /\ accum' = IF delim THEN <<>> ELSE acc
           /\ g_span' = IF delim THEN 0 ELSE g_span + Len(bytes)
           /\ g_reads' = IF delim THEN 0 ELSE g_reads + 1
           /\ g_last_span' = IF delim THEN g_span + Len(bytes)
                             ELSE g_last_span
           /\ IF delim /\ Len(acc) > 0 /\ dec.ok /\ Len(dec.out) > 0
              THEN RxHandleData(dec.out) /\ g_in' = dec.out
              ELSE UNCHANGED <<cmdVars, notifyVars, rxVars, g_in>>
    /\ UNCHANGED <<host_quiet, scanVars, pipeVars, hostVars, respResolve,
                   next_cmd, cmd_state, g_resolved_by, to_dev, to_host,
                   g_overlap, connVars, byteVars, linkVars,
                   frameVars>>
NextRxBytes ==
    \/ \E chunk \in RxChunks : RxRead(chunk)
    \/ RxSendRaw
SpecRxBytes == Init /\ [][NextRxBytes]_vars

\* C34: a span of more than RX_ACCUM_SIZE non-delimiter bytes is thrown
\* away whole: the delimiter that ends it dispatches no command from any
\* part of it.
C34_OversizedSpanDiscarded ==
    [][Len(g_cmds') > Len(g_cmds) => g_last_span' <= RX_ACCUM_SIZE]_vars
\* a command has been dispatched out of the tail of an oversized span
C34_DispatchedFromTail ==
    /\ g_last_span > RX_ACCUM_SIZE
    /\ accum = <<>>
    /\ rx_pc = "send"


\* ---------------------------------------------------------------------
\* The read loop hands one decoded message to handle_command
\* (sniffer.c:375-377); the messages are the well-formed and the
\* malformed ones.
\* ---------------------------------------------------------------------
RxDecoded(data) ==
    /\ rx_pc = "read"
    /\ Len(g_cmds) < MaxCmds
    /\ RxHandleData(data)
    /\ g_in' = data
    /\ UNCHANGED <<accum, g_span, g_last_span, g_reads>>
    /\ UNCHANGED <<host_quiet, scanVars, pipeVars, hostVars, respResolve,
                   next_cmd, cmd_state, g_resolved_by, to_dev, to_host,
                   g_overlap, connVars, byteVars, linkVars,
                   frameVars>>
NextRxIn ==
    \/ \E data \in InboundMsgs : RxDecoded(data)
    \/ RxSendRaw
SpecRxIn == Init /\ [][NextRxIn]_vars

\* the message is shorter than a header, or its header declares more
\* payload than follows it
TooShort(data) ==
    \/ Len(data) < 4
    \/ data[3] + 256 * data[4] > Len(data) - 4
ShortScanStart(data) ==
    /\ ~TooShort(data)
    /\ data[1] = MSG_CMD_SCAN_START
    /\ data[3] + 256 * data[4] < 2
DeviceStateUnchanged ==
    UNCHANGED <<scanning, promisc_on, scan_channel, scan_filter,
                wifi_promisc, wifi_filter, notifyVars, usb_out>>
C35_TruncatedSeen ==
    /\ g_in = MsgHdr(MSG_CMD_SCAN_STOP, 0, 1)
    /\ scanning
    /\ rx_pc = "read"


\* Host commands with disconnect() and the loss of the device; the timer
\* of line 205 fires after TIMEOUT ms and the reaction of line 210 runs
\* once the race has settled
MaxLiveCmds == 2
NextHostConnFair ==
    \/ HostSendCmd /\ next_cmd' <= MaxLiveCmds
    \/ DeviceAnswer
    \/ HostReadRsp
    \/ HostFinally
    \/ HostTimeout
    \/ Disconnect
    \/ HostReadCancelled
    \/ DisconnectReturn
    \/ LinkLost
    \/ HostReadLoopExit
SpecHostConnFair ==
    /\ Init
    /\ [][NextHostConnFair]_vars
    /\ WF_vars(HostTimeout)
    /\ WF_vars(HostFinally)

Settled(c) == cmd_state[c] \in {"done", "timeout"}
MaxSplitUnits == 2
NextHostSplit ==
    \/ \E u \in LinkUnits : LinkPut(u) /\ Len(g_sent') <= MaxSplitUnits
    \/ HostReadBytes
    \/ HostSendCmdWith(ScanStopMsg)
SpecHostSplit == Init /\ [][NextHostSplit]_vars

\* what _process leaves behind when the bytes b arrive in one read on top
\* of the reassembler state st (lines 241-243: _appendBuf, _process)
ReadInto(st, b) == process(st.buf \o b, st)
\* C37: however the bytes still on the link are split into two reads (a
\* split inside a message and an empty read included), the reassembler
\* dispatches the same messages and ends with the same frameCount,
\* dropped, sequence tracker and leftover buffer as when it reads them
\* at once.
C37_SplitMakesNoDifference ==
    \A n \in 0..Len(stream) :
      ReadInto(ReadInto(Reassembler, SubSeq(stream, 1, n)),
               SubSeq(stream, n + 1, Len(stream)))
        = ReadInto(Reassembler, stream)
\* a read has ended inside a message after another message was
\* dispatched, and more bytes are on the link
C37_Witness ==
    /\ buf # <<>>
    /\ g_dispatched # <<>>
    /\ IndexOfZero(stream) > 1
    /\ frameCount > 0


\* ---------------------------------------------------------------------
\* connect() after the previous connection has ended (part_002:86-105):
\* refused while _running; the port is opened, the reassembly buffer,
\* the sequence tracker and the counters are reset and a new read loop
\* is started.  g_delivered lists the frame callbacks of the connection.
\* ---------------------------------------------------------------------
MaxReconnects == 2
\* connect() that leaves the sequence tracker as it is
Connect_KeepsTracker ==
    /\ ~running
    /\ reader_pc = "exited"
    /\ disc_pc # "cancel"
    /\ g_onDisconnect < MaxReconnects
    /\ port' = "open"
    /\ running' = TRUE
    /\ buf' = <<>>
    /\ frameCount' = 0
    /\ dropped' = 0
    /\ reader_pc' = "read"
    /\ disc_pc' = "idle"
    /\ g_delivered' = <<>>
    /\ UNCHANGED <<firstSeq, seqExpect, g_host_first, g_host_last, g_host_in,
                   g_onDisconnect, cobs_pc, cobs_src, cobs_wire, cobs_res,
                   g_codec, stream, g_sent, g_dispatched>>
    /\ UNCHANGED <<respResolve, next_cmd, cmd_state, g_resolved_by, to_dev,
                   to_host, g_overlap, linkVars, accVars, frameVars>>
    /\ UNCHANGED <<cmdVars, host_quiet, notifyVars, scanVars, pipeVars,
                   rxVars>>
Connect ==
    /\ ~running
    /\ reader_pc = "exited"
    /\ disc_pc # "cancel"
    /\ g_onDisconnect < MaxReconnects
    /\ port' = "open"
    /\ running' = TRUE
    /\ buf' = <<>>
    /\ firstSeq' = TRUE
    /\ seqExpect' = 0
    /\ frameCount' = 0
    /\ dropped' = 0
    /\ reader_pc' = "read"
    /\ disc_pc' = "idle"
    /\ g_delivered' = <<>>
    /\ UNCHANGED <<g_host_first, g_host_last, g_host_in, g_onDisconnect,
                   cobs_pc, cobs_src, cobs_wire, cobs_res, g_codec, stream,
                   g_sent, g_dispatched>>
    /\ UNCHANGED <<respResolve, next_cmd, cmd_state, g_resolved_by, to_dev,
                   to_host, g_overlap, linkVars, accVars, frameVars>>
    /\ UNCHANGED <<cmdVars, host_quiet, notifyVars, scanVars, pipeVars,
                   rxVars>>
MaxConnUnits == 2
NextHostReconnect ==
    \/ \E u \in LinkUnits : LinkPut(u) /\ Len(g_sent') <= MaxConnUnits
    \/ HostReadBytes
    \/ Disconnect
    \/ HostReadCancelled
    \/ DisconnectReturn
    \/ LinkLost
    \/ HostReadLoopExit
    \/ Connect
SpecHostReconnect == Init /\ [][NextHostReconnect]_vars

ConnectStep == ~running /\ running'
\* C38: within one connection dropped never decreases and frameCount is
\* the number of frame callbacks made; connect() sets frameCount and
\* dropped to 0, marks the sequence tracker as not seeded and empties the
\* reassembly buffer, so that the first frame of the new connection
\* counts no gap.
C38_CountersPerConnection ==
    /\ [](frameCount = Len(g_delivered))
    /\ [](frameCount <= 1 => dropped = 0)
    /\ [][~ConnectStep => dropped' >= dropped]_vars
    /\ [][ConnectStep => /\ frameCount' = 0
                         /\ dropped' = 0
                         /\ firstSeq'
                         /\ buf' = <<>>]_vars
\* frame 0 was received on the first connection and frame 3 is the first
\* frame of the second: no gap is counted
C38_Witness ==
    /\ Len(g_sent) = 2
    /\ g_sent[1].msg = FrameBytes(0)
    /\ g_sent[2].msg = FrameBytes(3)
    /\ stream = <<>>
    /\ buf = <<>>
    /\ frameCount = 1
    /\ seqExpect = 4
    /\ dropped = 0


\* ---------------------------------------------------------------------
\* The frame pipeline with packets of several lengths: sig_len is a
\* uint16_t, from an empty frame to the largest value, around the limit
\* MAX_FRAME_LEN.
\* ---------------------------------------------------------------------
FrameLens == {0, RawLen, MAX_FRAME_LEN, MAX_FRAME_LEN + 1, U16 - 1}
MaxLenFrames == 3
NextPipeLens ==
    \/ RxDispatch(PipeMsgs)
    \/ \E sig_len \in FrameLens :
         ProdAcquireWith(sig_len) /\ g_captured' <= MaxLenFrames
    \/ ProdEnqueue
    \/ proto_tx_task
    \/ HostReadFrame
SpecPipeLens == Init /\ [][NextPipeLens]_vars

\* the tx_item_t values enqueued and not yet released
QueuedItems ==
    {tx_queue[i] : i \in 1..Len(tx_queue)}
    \cup (IF tx_pc = "write" THEN {tx_item} ELSE {})
\* C39: every Frame event enqueued has frame_len <= MAX_FRAME_LEN,
\* payload_len = 16 + frame_len, msg_type 0xC0 and a total length of
\* 4 + 16 + frame_len <= BUF_SLOT_SIZE; the length queued with it is the
\* header plus payload_len.
C39_QueuedFrameLengths ==
    \A item \in QueuedItems :
      LET c == buf_pool[item.buf]
      IN  /\ c.msg_type = 192
          /\ c.frame_len <= 2300
          /\ c.payload_len = 16 + c.frame_len
          /\ item.len = 4 + 16 + c.frame_len
          /\ item.len <= BUF_SLOT_SIZE
          /\ item.len = 4 + c.payload_len
          /\ c.raw_len = c.frame_len
\* an empty frame and one of the maximum length are queued
C39_Witness ==
    /\ \E i \in 1..Len(tx_queue) :
         /\ buf_pool[tx_queue[i].buf].frame_len = MAX_FRAME_LEN
         /\ tx_queue[i].len = BUF_SLOT_SIZE
    /\ \E i \in 1..Len(tx_queue) :
         /\ buf_pool[tx_queue[i].buf].frame_len = 0
         /\ tx_queue[i].len = HDR_SIZE + META_SIZE


\* ---------------------------------------------------------------------
\* Frame (frame.ts): the information elements of a management frame and
\* its SSID.  JavaScript indexes raw from 0, sequences start at 1:
\* raw[pos] of the source is raw[pos + 1] here.
\* ---------------------------------------------------------------------
FRAME_TYPE_MGMT == 0
SUBTYPE_ASSOC_REQ == 0
SUBTYPE_PROBE_REQ == 4
SUBTYPE_PROBE_RESP == 5
SUBTYPE_BEACON == 8
\* frame.ts:77-85
frameControl(raw) == IF Len(raw) < 2 THEN 0 ELSE raw[1] + U8 * raw[2]
\* frame.ts:87-93
frameType(raw) == (frameControl(raw) \div 4) % 4
frameSubtype(raw) == (frameControl(raw) \div 16) % 16
\* every management frame has its elements right after the MAC header
ieOffset_NoFixedFields(raw) ==
    IF frameType(raw) # FRAME_TYPE_MGMT THEN -1 ELSE 24
ieOffset(raw) ==
    IF frameType(raw) # FRAME_TYPE_MGMT THEN -1
    ELSE LET st == frameSubtype(raw)
         IN  IF st = SUBTYPE_BEACON \/ st = SUBTYPE_PROBE_RESP THEN 24 + 12
             ELSE IF st = SUBTYPE_PROBE_REQ THEN 24
             ELSE IF st = SUBTYPE_ASSOC_REQ THEN 24 + 4
             ELSE 24
\* the loop of iterIes from pos on: the elements yielded, each with the
\* position it was read at
RECURSIVE IesFrom(_, _)
IesFrom(raw, pos) ==
    IF pos + 2 > Len(raw) THEN <<>>
    ELSE LET ieId == raw[pos + 1]
             ieLen == raw[pos + 2]
         IN  IF pos + 2 + ieLen > Len(raw) THEN <<>>
             ELSE <<[id |-> ieId,
                     data |-> SubSeq(raw, pos + 3, pos + 2 + ieLen),
                     g_pos |-> pos]>>
                  \o IesFrom(raw, pos + 2 + ieLen)
iterIes(raw) ==
    LET offset == ieOffset(raw)
    IN  IF offset < 0 THEN <<>> ELSE IesFrom(raw, offset)
\* TextDecoder("utf-8").decode on bytes below 0x80: one character per
\* byte, written as its code
TextDecode(data) == data
NoSsid == [null |-> TRUE, text |-> <<>>]
ssid(raw) ==
    LET ies == iterIes(raw)
        hits == {k \in 1..Len(ies) : ies[k].id = 0}
    IN  IF hits = {} THEN NoSsid
        ELSE LET first == CHOOSE k \in hits : \A j \in hits : k <= j
             IN  [null |-> FALSE,
                  text |-> IF Len(ies[first].data) = 0 THEN <<>>
                           ELSE TextDecode(ies[first].data)]

\* frames: a frame control byte, the rest of the 24-byte MAC header,
\* and a body of up to 12 bytes of fixed fields (themselves readable as
\* elements) followed by up to two pieces: elements with and without
\* the id 0, an empty one, one whose length overruns, a lone byte
FcBytes == {128, 80, 64, 0, 16, 192, 8, 136, 180}
MacHeader(fc) == <<fc, 0>> \o [k \in 1..22 |-> 0]
FixedFields == {<<>>, <<0, 2, 70, 71>>,
                <<0, 2, 70, 71, 0, 6, 1, 2, 3, 4, 5, 6>>}
IePieces == {<<0, 0>>, <<0, 1, 65>>, <<1, 1, 130>>, <<0, 2, 66, 67>>,
             <<3, 1, 6>>, <<0, 9, 68>>, <<221, 0>>, <<7>>}
MaxPiecesPerFrame == 2
IeTails == UNION {[1..n -> IePieces] : n \in 0..MaxPiecesPerFrame}
RECURSIVE Flatten(_)
Flatten(ss) == IF ss = <<>> THEN <<>> ELSE Head(ss) \o Flatten(Tail(ss))
RawFrames ==
    {<<>>, <<128>>}
    \cup {MacHeader(fc) \o f \o Flatten(t) :
            fc \in FcBytes, f \in FixedFields, t \in IeTails}
\* a Frame is built on raw and its elements and ssid are read
FrameSsid(raw) ==
    /\ fr_raw = <<>>
    /\ fr_raw' = raw
    /\ fr_ies' = iterIes(raw)
    /\ fr_ssid' = ssid(raw)
    /\ UNCHANGED <<cmdVars, host_quiet, notifyVars, scanVars, pipeVars,
                   hostVars, rxVars, respResolve, next_cmd, cmd_state,
                   g_resolved_by, to_dev, to_host, g_overlap, connVars,
                   byteVars, linkVars, accVars>>
NextFrame == \E raw \in RawFrames : FrameSsid(raw)
SpecFrame == Init /\ [][NextFrame]_vars

\* the offset the elements of fr_raw start at, by type and subtype
IsManagement == Len(fr_raw) < 2 \/ (fr_raw[1] \div 4) % 4 = 0
ElementsStart ==
    LET subtype == IF Len(fr_raw) < 2 THEN 0 ELSE fr_raw[1] \div 16
    IN  CASE subtype = 4 -> 24
          [] subtype = 0 -> 28
          [] subtype \in {8, 5} -> 36
          [] OTHER -> 24
\* the element at index k was read where the one before it ended, is
\* what the raw bytes hold there, and lies within the frame
ElementInPlace(k) ==
    LET e == fr_ies[k]
        p == e.g_pos
    IN  /\ p = IF k = 1 THEN ElementsStart
               ELSE fr_ies[k - 1].g_pos + 2 + Len(fr_ies[k - 1].data)
        /\ p + 2 + Len(e.data) <= Len(fr_raw)
        /\ e.id = fr_raw[p + 1]
        /\ Len(e.data) = fr_raw[p + 2]
        /\ \A j \in 1..Len(e.data) : e.data[j] = fr_raw[p + 2 + j]
\* where the iteration stopped: fewer than two bytes are left, or the
\* element there announces more bytes than the frame holds
StoppedAt ==
    IF fr_ies = <<>> THEN ElementsStart
    ELSE fr_ies[Len(fr_ies)].g_pos + 2 + Len(fr_ies[Len(fr_ies)].data)
StopsAtOverrun ==
    \/ StoppedAt + 2 > Len(fr_raw)
    \/ StoppedAt + 2 + fr_raw[StoppedAt + 2] > Len(fr_raw)
\* C40: ssid is the data of the first element with id 0 among the
\* (id, length, data) elements read from the subtype's offset (24 probe
\* request, 28 association request, 36 beacon and probe response, 24
\* any other management frame); a frame that is not a management frame
\* has no elements; the iteration stops without error at the first
\* element that overruns the frame; ssid is absent when no element has
\* id 0 and the empty string when that element has length 0.
C40_SsidIsFirstElementZero ==
    /\ ~IsManagement => fr_ies = <<>> /\ fr_ssid.null
    /\ IsManagement =>
         /\ \A k \in 1..Len(fr_ies) : ElementInPlace(k)
         /\ StopsAtOverrun
    /\ (\A k \in 1..Len(fr_ies) : fr_ies[k].id # 0) => fr_ssid.null
    /\ \A k \in 1..Len(fr_ies) :
         (fr_ies[k].id = 0 /\ \A j \in 1..(k - 1) : fr_ies[j].id # 0)
           => ~fr_ssid.null /\ fr_ssid.text = fr_ies[k].data
\* a beacon whose fixed fields read as elements, followed by a vendor
\* element, an SSID of two bytes and an element that overruns
C40_Witness ==
    /\ fr_raw = MacHeader(128) \o <<0, 2, 70, 71, 0, 6, 1, 2, 3, 4, 5, 6>>
                  \o <<3, 1, 6>> \o <<0, 2, 66, 67>>
    /\ Len(fr_ies) = 2
    /\ fr_ssid = [null |-> FALSE, text |-> <<66, 67>>]
\* an SSID element of length 0 gives the empty string, and the element
\* after it overruns
C40_EmptySsid ==
    /\ fr_raw = MacHeader(64) \o <<0, 0>> \o <<0, 9, 68>>
    /\ fr_ssid = [null |-> FALSE, text |-> <<>>]

====
